---- MODULE Spec2Model ----
(***************************************************************************)
(* Loyalty-points backend (avc-dev/loyalty-system-diploma).                *)
(*                                                                         *)
(* The model covers the persistent state (tables orders and transactions), *)
(* the store operations of OrderRepository and TransactionRepository, and  *)
(* the accrual pipeline of worker.Pool.  Every database statement and      *)
(* every remote call is one step, so that concurrent callers interleave    *)
(* exactly where the code lets them.  Amounts are integers (points).       *)
(***************************************************************************)
EXTENDS Integers, Sequences, FiniteSets, TLC

\* ------------------------------------------------------------------ bounds
NumWithdraws == 2      \* concurrent WithdrawWithLock calls
MaxAmount == 1         \* largest requested withdrawal / accrual amount
MaxFunds == 3          \* largest pre-existing balance of a burst scenario
NumWorkers == 2        \* PoolConfig.Workers
QueueSize == 1         \* PoolConfig.QueueSize: capacity of queue and of retryQueue
MaxAccrual == 1        \* largest accrual the oracle grants
MaxRetryAfter == 1     \* largest Retry-After (in clock ticks) the oracle answers
NumSubmits == 3        \* concurrent CreateOrder calls
MaxLen == 2            \* longest string of arbitrary characters handed to a parser
MaxTicks == 2             \* scan intervals that elapse

\* ------------------------------------------------------------- identities
Users == {"alice", "bob"}
OrderNums == {"79927398713", "12345678903"}
\* the order number a withdrawal pays for is an audit label, not a key
WithdrawOrders == {"2377225624"}

WithdrawCalls == 1..NumWithdraws
NoCall == 0
Workers == 1..NumWorkers
SubmitCalls == 1..NumSubmits

\* domain.OrderStatus, and the oracle's REGISTERED, which has no constant
OrderStatusNew == "NEW"
OrderStatusProcessing == "PROCESSING"
OrderStatusInvalid == "INVALID"
OrderStatusProcessed == "PROCESSED"
StatusRegistered == "REGISTERED"
OracleStatuses == {StatusRegistered, OrderStatusProcessing, OrderStatusInvalid,
                   OrderStatusProcessed}

\* a nil *float64 / SQL NULL accrual
Null == -1

\* domain.TransactionType
TransactionTypeAccrual == "accrual"
TransactionTypeWithdrawal == "withdrawal"

\* error values returned by the store
ErrNil == "nil"
ErrInsufficientFunds == "ErrInsufficientFunds"
ErrDuplicateAccrual == "ErrDuplicateAccrual"
ErrWrapped == "error"          \* fmt.Errorf("repository: ...: %w", err)
ErrOrderExists == "ErrOrderExists"
ErrOrderOwnedByAnother == "ErrOrderOwnedByAnother"
ErrOrderNotFound == "ErrOrderNotFound"
\* error values returned by the services
ErrInvalidOrderNumber == "ErrInvalidOrderNumber"
ServiceErrInsufficientFunds == "service.ErrInsufficientFunds"
ServiceErrOrderExists == "service.ErrOrderExists"
ServiceErrOrderOwnedByAnother == "service.ErrOrderOwnedByAnother"

VARIABLES
    ledger,        \* table transactions: committed rows in commit order
    advisoryLock,  \* pg advisory lock per user id: the holding call, or NoCall
    wd,            \* WithdrawWithLock calls: position and locals of each
    orders,        \* table orders: rows in upload order (uploaded_at ascending)
    sub,           \* CreateOrder calls: position and locals of each
    queue,         \* Pool.queue: buffered channel of order numbers
    retryQueue,    \* Pool.retryQueue: retryItems, each with the time left until its retryAfter
    wk,            \* Pool.worker goroutines: position and locals of each
    scan,          \* Pool.scanner goroutine: position, orders still to offer
    rp,            \* Pool.retryProcessor goroutine: position, the item it holds
    app,           \* App.shutdown: how far the shutdown of the pool has come
    pureCall,      \* the last call of a function without state: argument and result
    ticker         \* the scanner's time.Ticker: the tick in ticker.C, intervals and passes so far

ledgerVars == <<ledger, advisoryLock, wd>>
orderVars == <<orders, sub>>
poolVars == <<queue, retryQueue, wk, scan, rp>>
envVars == <<app, pureCall, ticker>>
vars == <<ledger, advisoryLock, wd, orders, sub, queue, retryQueue, wk, scan, rp,
          app, pureCall, ticker>>

NoPureCall == [fn |-> "none", arg |-> <<>>, ret |-> <<>>]

\* time.NewTicker(ScanInterval): no tick in ticker.C, no interval elapsed, no
\* tick received by the scanner
NewTicker == [C |-> FALSE, intervals |-> 0, received |-> 0]

\* ------------------------------------------------------- table transactions
Transaction(u, n, a, t) == [user |-> u, order |-> n, amount |-> a, type |-> t]

RECURSIVE SumAmounts(_)
SumAmounts(s) == IF s = <<>> THEN 0 ELSE Head(s).amount + SumAmounts(Tail(s))

Abs(x) == IF x < 0 THEN -x ELSE x

UserRows(l, u) == SelectSeq(l, LAMBDA e : e.user = u)

\* SELECT COALESCE(SUM(amount), 0) FROM transactions WHERE user_id = $1
SumBalance(l, u) == SumAmounts(UserRows(l, u))

\* the partial unique index on transactions(order_number) WHERE type = 'accrual'
AccrualExists(l, n) ==
    \E i \in 1..Len(l) : l[i].order = n /\ l[i].type = TransactionTypeAccrual

CreateTransactionNoIndex(l, u, n, a, t) ==
    [ledger |-> Append(l, Transaction(u, n, a, t)), err |-> ErrNil]

\* an insert that reports the unique violation as any other failed statement
CreateTransactionWrapsDuplicate(l, u, n, a, t) ==
    IF t = TransactionTypeAccrual /\ AccrualExists(l, n)
    THEN [ledger |-> l, err |-> ErrWrapped]
    ELSE [ledger |-> Append(l, Transaction(u, n, a, t)), err |-> ErrNil]

\* TransactionRepository.CreateTransaction when the database answers
CreateTransaction(l, u, n, a, t) ==
    IF t = TransactionTypeAccrual /\ AccrualExists(l, n)
    THEN [ledger |-> l, err |-> ErrDuplicateAccrual]
    ELSE [ledger |-> Append(l, Transaction(u, n, a, t)), err |-> ErrNil]

\* a GetBalance that reports the accrued total as current
GetBalanceNoDebit(l, u) ==
    LET rows == UserRows(l, u)
        accrued == SumAmounts(SelectSeq(rows, LAMBDA e : e.amount > 0))
    IN  [current |-> accrued, withdrawn |-> accrued - SumAmounts(rows)]

\* TransactionRepository.GetBalance
GetBalance(l, u) ==
    LET rows == UserRows(l, u)
        accrued == SumAmounts(SelectSeq(rows, LAMBDA e : e.amount > 0))
        withdrawn == SumAmounts([i \in 1..Len(SelectSeq(rows, LAMBDA e : e.amount < 0)) |->
                        [amount |-> Abs(SelectSeq(rows, LAMBDA e : e.amount < 0)[i].amount)]])
    IN  [current |-> accrued - withdrawn, withdrawn |-> withdrawn]

Reverse(s) == [i \in 1..Len(s) |-> s[Len(s) + 1 - i]]

\* a GetWithdrawals that selects amount as stored, without ABS
GetWithdrawalsSigned(l, u) ==
    Reverse(SelectSeq(l, LAMBDA e : e.user = u /\ e.type = TransactionTypeWithdrawal))

\* TransactionRepository.GetWithdrawals: the user's withdrawal rows with
\* ABS(amount), ORDER BY processed_at DESC
GetWithdrawals(l, u) ==
    LET rows == SelectSeq(l, LAMBDA e : e.user = u /\ e.type = TransactionTypeWithdrawal)
    IN  Reverse([i \in 1..Len(rows) |-> [rows[i] EXCEPT !.amount = Abs(@)]])

\* --------------------------------------------------- WithdrawWithLock calls
IdleCall == [pc |-> "idle", user |-> "alice", order |-> "2377225624",
             amount |-> 0, balance |-> 0, err |-> "none"]

Finish(call, e) == [call EXCEPT !.pc = "done", !.balance = 0, !.err = e]

LockAlwaysFree(lk, u) == TRUE

\* pg_advisory_xact_lock($1) returns once no other transaction holds the key
LockFree(lk, u) == lk[u] = NoCall

\* a lock that outlives its transaction, as a session-level pg_advisory_lock would
ReleaseNever(lk, c) == lk

\* tx.Rollback / tx.Commit end the transaction and with it the advisory lock
Release(lk, c) == [u \in Users |-> IF lk[u] = c THEN NoCall ELSE lk[u]]

\* a call enters WithdrawWithLock and begins its transaction (r.db.Begin)
WithdrawBegin(c, u, n, a) ==
    /\ wd[c].pc = "idle"
    /\ \A d \in WithdrawCalls : d < c => wd[d].pc # "idle"
    /\ \E ok \in BOOLEAN :
          wd' = [wd EXCEPT ![c] =
                    IF ok THEN [pc |-> "begun", user |-> u, order |-> n,
                                amount |-> a, balance |-> 0, err |-> "none"]
                    ELSE Finish([IdleCall EXCEPT !.user = u, !.order = n, !.amount = a],
                                ErrWrapped)]
    /\ UNCHANGED <<ledger, advisoryLock, orderVars, poolVars, envVars>>

\* SELECT pg_advisory_xact_lock($1): waits for the key, or the statement fails
WithdrawLock(c) ==
    /\ wd[c].pc = "begun"
    /\ \/ /\ LockFree(advisoryLock, wd[c].user)
          /\ advisoryLock' = [advisoryLock EXCEPT ![wd[c].user] = c]
          /\ wd' = [wd EXCEPT ![c].pc = "locked"]
       \/ /\ wd' = [wd EXCEPT ![c] = Finish(@, ErrWrapped)]
          /\ UNCHANGED advisoryLock
    /\ UNCHANGED <<ledger, orderVars, poolVars, envVars>>

\* the balance query inside the transaction
WithdrawReadBalance(c) ==
    /\ wd[c].pc = "locked"
    /\ \/ /\ wd' = [wd EXCEPT ![c].pc = "read",
                              ![c].balance = SumBalance(ledger, wd[c].user)]
          /\ UNCHANGED advisoryLock
       \/ /\ wd' = [wd EXCEPT ![c] = Finish(@, ErrWrapped)]
          /\ advisoryLock' = Release(advisoryLock, c)
    /\ UNCHANGED <<ledger, orderVars, poolVars, envVars>>

InsufficientOffByOne(balance, amount) == balance <= amount

\* a withdrawal without the funds check
InsufficientNever(balance, amount) == FALSE

\* if balance < amount { return domain.ErrInsufficientFunds }
Insufficient(balance, amount) == balance < amount

\* an INSERT that fails unless an order with the number is stored, as under
\* a foreign key from transactions.order_number to orders.number
WithdrawInsertNeedsOrder(c) ==
    /\ wd[c].pc = "read"
    /\ IF Insufficient(wd[c].balance, wd[c].amount)
       THEN /\ wd' = [wd EXCEPT ![c] = Finish(@, ErrInsufficientFunds)]
            /\ advisoryLock' = Release(advisoryLock, c)
       ELSE \/ /\ \E i \in 1..Len(orders) : orders[i].number = wd[c].order
               /\ wd' = [wd EXCEPT ![c].pc = "inserted", ![c].balance = 0]
               /\ UNCHANGED advisoryLock
            \/ /\ wd' = [wd EXCEPT ![c] = Finish(@, ErrWrapped)]
               /\ advisoryLock' = Release(advisoryLock, c)
    /\ UNCHANGED <<ledger, orderVars, poolVars, envVars>>

\* the funds check, then the INSERT inside the transaction
WithdrawInsert(c) ==
    /\ wd[c].pc = "read"
    /\ IF Insufficient(wd[c].balance, wd[c].amount)
       THEN /\ wd' = [wd EXCEPT ![c] = Finish(@, ErrInsufficientFunds)]
            /\ advisoryLock' = Release(advisoryLock, c)
       ELSE \/ /\ wd' = [wd EXCEPT ![c].pc = "inserted", ![c].balance = 0]
               /\ UNCHANGED advisoryLock
            \/ /\ wd' = [wd EXCEPT ![c] = Finish(@, ErrWrapped)]
               /\ advisoryLock' = Release(advisoryLock, c)
    /\ UNCHANGED <<ledger, orderVars, poolVars, envVars>>

\* a withdrawal stored with the amount as the caller gave it
WithdrawCommitUnsigned(c) ==
    /\ wd[c].pc = "inserted"
    /\ \/ /\ ledger' = Append(ledger, Transaction(wd[c].user, wd[c].order,
                                   wd[c].amount, TransactionTypeWithdrawal))
          /\ wd' = [wd EXCEPT ![c] = Finish(@, ErrNil)]
       \/ /\ wd' = [wd EXCEPT ![c] = Finish(@, ErrWrapped)]
          /\ UNCHANGED ledger
    /\ advisoryLock' = Release(advisoryLock, c)
    /\ UNCHANGED <<orderVars, poolVars, envVars>>

\* tx.Commit: the inserted row becomes visible and the lock is released
WithdrawCommit(c) ==
    /\ wd[c].pc = "inserted"
    /\ \/ /\ ledger' = Append(ledger, Transaction(wd[c].user, wd[c].order,
                                   -wd[c].amount, TransactionTypeWithdrawal))
          /\ wd' = [wd EXCEPT ![c] = Finish(@, ErrNil)]
       \/ /\ wd' = [wd EXCEPT ![c] = Finish(@, ErrWrapped)]
          /\ UNCHANGED ledger
    /\ advisoryLock' = Release(advisoryLock, c)
    /\ UNCHANGED <<orderVars, poolVars, envVars>>

\* the pipeline appends an accrual: CreateTransaction(u, n, a, accrual), a > 0
\* (a call the database fails changes nothing)
AppendAccrual(u, n, a) ==
    /\ ledger' = CreateTransaction(ledger, u, n, a, TransactionTypeAccrual).ledger
    /\ UNCHANGED <<advisoryLock, wd, orderVars, poolVars, envVars>>

\* ------------------------------------------------------------ table orders
NewOrder(u, n) == [number |-> n, user |-> u, status |-> OrderStatusNew, accrual |-> Null]

\* a row with this number is stored
OrderExists(os, n) == \E i \in 1..Len(os) : os[i].number = n

\* an orders table without the unique constraint on number
NoUniqueNumber(os, n) == FALSE

\* the unique constraint on orders.number: SQLSTATE 23505 on a second insert
UniqueViolation(os, n) == OrderExists(os, n)

\* OrderRepository.GetOrderByNumber for a number that is stored
GetOrderByNumber(os, n) == os[CHOOSE i \in 1..Len(os) : os[i].number = n]

\* an UPDATE that turns into an INSERT when no row has the number
UpdateOrderStatusUpserts(os, n, st, acc) ==
    IF ~OrderExists(os, n)
    THEN [orders |-> Append(os, [number |-> n, user |-> "alice",
                                 status |-> st, accrual |-> acc]),
          err |-> ErrNil]
    ELSE [orders |-> [i \in 1..Len(os) |->
                        IF os[i].number = n
                        THEN [os[i] EXCEPT !.status = st, !.accrual = acc]
                        ELSE os[i]],
          err |-> ErrNil]

\* OrderRepository.UpdateOrderStatus: UPDATE orders SET status, accrual WHERE number
UpdateOrderStatus(os, n, st, acc) ==
    IF ~OrderExists(os, n) THEN [orders |-> os, err |-> ErrOrderNotFound]
    ELSE [orders |-> [i \in 1..Len(os) |->
                        IF os[i].number = n
                        THEN [os[i] EXCEPT !.status = st, !.accrual = acc]
                        ELSE os[i]],
          err |-> ErrNil]

\* a query that selects only status NEW
GetPendingOrdersOnlyNew(os) == SelectSeq(os, LAMBDA o : o.status = OrderStatusNew)

\* a query that orders by uploaded_at DESC
GetPendingOrdersNewestFirst(os) ==
    LET pending == SelectSeq(os, LAMBDA o : o.status \in {OrderStatusNew, OrderStatusProcessing})
    IN  [i \in 1..Len(pending) |-> pending[Len(pending) + 1 - i]]

\* OrderRepository.GetPendingOrders: status IN (NEW, PROCESSING) ORDER BY uploaded_at ASC
GetPendingOrders(os) ==
    SelectSeq(os, LAMBDA o : o.status \in {OrderStatusNew, OrderStatusProcessing})

Numbers(os) == [i \in 1..Len(os) |-> os[i].number]

\* ------------------------------------------------------- CreateOrder calls
IdleSubmit == [pc |-> "idle", user |-> "alice", number |-> "79927398713", err |-> "none"]

\* the INSERT of CreateOrder: a new row, a unique violation, or a failed statement
CreateOrderInsert(c, u, n) ==
    /\ sub[c].pc = "idle"
    /\ \A d \in SubmitCalls : d < c => sub[d].pc # "idle"
    /\ \E fault \in BOOLEAN :
         IF fault
         THEN /\ sub' = [sub EXCEPT ![c] = [pc |-> "done", user |-> u, number |-> n,
                                            err |-> ErrWrapped]]
              /\ UNCHANGED orders
         ELSE IF UniqueViolation(orders, n)
         THEN /\ sub' = [sub EXCEPT ![c] = [pc |-> "check", user |-> u, number |-> n,
                                            err |-> "none"]]
              /\ UNCHANGED orders
         ELSE /\ orders' = Append(orders, NewOrder(u, n))
              /\ sub' = [sub EXCEPT ![c] = [pc |-> "done", user |-> u, number |-> n,
                                            err |-> ErrNil]]
    /\ UNCHANGED <<ledgerVars, poolVars, envVars>>

\* a CreateOrder that resets the row it found to a new upload of the caller
CreateOrderCheckResets(c) ==
    /\ sub[c].pc = "check"
    /\ sub' = [sub EXCEPT ![c].pc = "done", ![c].err = ErrOrderExists]
    /\ orders' = UpdateOrderStatus(orders, sub[c].number, OrderStatusNew, Null).orders
    /\ UNCHANGED <<ledgerVars, poolVars, envVars>>

\* a CreateOrder that hands the row it found to the caller
CreateOrderCheckTakesOver(c) ==
    /\ sub[c].pc = "check"
    /\ sub' = [sub EXCEPT ![c].pc = "done", ![c].err = ErrNil]
    /\ orders' = [i \in 1..Len(orders) |->
                    IF orders[i].number = sub[c].number
                    THEN [orders[i] EXCEPT !.user = sub[c].user]
                    ELSE orders[i]]
    /\ UNCHANGED <<ledgerVars, poolVars, envVars>>

\* after the unique violation: read the stored row and compare its owner
CreateOrderCheck(c) ==
    /\ sub[c].pc = "check"
    /\ \E fault \in BOOLEAN :
         sub' = [sub EXCEPT ![c].pc = "done",
                            ![c].err =
                                IF fault THEN ErrWrapped
                                ELSE IF GetOrderByNumber(orders, sub[c].number).user
                                        # sub[c].user
                                THEN ErrOrderOwnedByAnother
                                ELSE ErrOrderExists]
    /\ UNCHANGED <<orders, ledgerVars, poolVars, envVars>>

\* ------------------------------------------------------------ worker.Pool
\* a non-blocking send on a buffered channel: select { case ch <- x: default: }
TrySend(ch, x) == IF Len(ch) < QueueSize THEN Append(ch, x) ELSE ch

\* ctx.Done() is closed: App.shutdown has called cancel()
CtxDone == app # "serving"

\* Pool.Stop has closed p.queue / p.retryQueue
QueueClosed == app \in {"queueClosed", "waiting", "stopped"}
RetryQueueClosed == app \in {"waiting", "stopped"}

\* what a select with the cases `ch <- x`, `<-ctx.Done()` and `default` can
\* leave in the open channel ch: with ctx live the send or, when ch is full,
\* the default; with ctx done the send when there is room, or nothing
SelectSend(ch, x) ==
    IF CtxDone THEN {ch, TrySend(ch, x)} ELSE {TrySend(ch, x)}

\* a send on a closed channel: the panic ends the process, and with it every
\* goroutine and the caller of Stop
Panic ==
    /\ app' = "panic"
    /\ wk' = [w \in Workers |-> [wk[w] EXCEPT !.pc = "crashed"]]
    /\ scan' = [scan EXCEPT !.pc = "crashed"]
    /\ rp' = [rp EXCEPT !.pc = "crashed"]
    /\ UNCHANGED <<ledgerVars, orderVars, queue, retryQueue, pureCall, ticker>>

NilResp == "nil"       \* GetOrderAccrual returned (nil, nil): HTTP 204

IdleWorker == [pc |-> "idle", order |-> "79927398713", accrual |-> Null,
               owner |-> "alice", err |-> "none"]

\* case orderNumber, ok := <-p.queue
WorkerDequeue(w) ==
    /\ wk[w].pc = "idle"
    /\ queue # <<>>
    /\ wk' = [wk EXCEPT ![w] = [IdleWorker EXCEPT !.pc = "polling", !.order = Head(queue)]]
    /\ queue' = Tail(queue)
    /\ UNCHANGED <<ledgerVars, orderVars, retryQueue, scan, rp, envVars>>

\* GetOrderAccrual failed with something that is no RateLimitError: log, return
PollTransient(w) ==
    /\ wk[w].pc = "polling"
    /\ wk' = [wk EXCEPT ![w] = IdleWorker]
    /\ UNCHANGED <<ledgerVars, orderVars, queue, retryQueue, scan, rp, envVars>>

\* a worker that sleeps for RetryAfter inside processOrder instead of handing
\* the order to retryQueue
PollRateLimitSleeps(w, d) ==
    /\ wk[w].pc = "polling"
    /\ wk' = [wk EXCEPT ![w].pc = IF d > 0 THEN "sleeping" ELSE "idle"]
    /\ UNCHANGED <<ledgerVars, orderVars, queue, retryQueue, scan, rp, envVars>>

\* GetOrderAccrual returned a RateLimitError: non-blocking send of
\* retryItem{orderNumber, time.Now().Add(RetryAfter)} to retryQueue
PollRateLimit(w, d) ==
    /\ wk[w].pc = "polling"
    /\ IF RetryQueueClosed THEN UNCHANGED retryQueue
       ELSE retryQueue' \in SelectSend(retryQueue, [orderNumber |-> wk[w].order, wait |-> d])
    /\ wk' = [wk EXCEPT ![w] = IdleWorker]
    /\ UNCHANGED <<ledgerVars, orderVars, queue, scan, rp, envVars>>

\* a worker that leaves an order the oracle does not know at NEW
StatusToWriteKeepsNew(st) == IF st = NilResp THEN OrderStatusNew ELSE st

\* the status the worker hands to UpdateOrderStatus
StatusToWrite(st) == IF st = NilResp THEN OrderStatusProcessing ELSE st

\* a worker that creates a transaction for every PROCESSED response
WantsAccrualAlways(st, acc) == st = OrderStatusProcessed

\* Status == PROCESSED && Accrual != nil && *Accrual > 0
WantsAccrual(st, acc) == st = OrderStatusProcessed /\ acc # Null /\ acc > 0

\* GetOrderAccrual returned (nil, nil) or a decoded AccrualResponse (st, acc);
\* the worker calls UpdateOrderStatus and returns unless an accrual is due
PollResponse(w, st, acc) ==
    /\ wk[w].pc = "polling"
    /\ \E fault \in BOOLEAN :
         LET r == UpdateOrderStatus(orders, wk[w].order, StatusToWrite(st), acc)
         IN  IF fault \/ r.err # ErrNil
             THEN /\ wk' = [wk EXCEPT ![w] = IdleWorker]
                  /\ UNCHANGED orders
             ELSE /\ orders' = r.orders
                  /\ wk' = [wk EXCEPT ![w] =
                              IF WantsAccrual(st, acc)
                              THEN [@ EXCEPT !.pc = "lookup", !.accrual = acc]
                              ELSE IdleWorker]
    /\ UNCHANGED <<ledgerVars, sub, queue, retryQueue, scan, rp, envVars>>

\* a worker that credits a user it did not read from the order
WorkerLookupOtherUser(w) ==
    /\ wk[w].pc = "lookup"
    /\ wk' = [wk EXCEPT ![w].pc = "append", ![w].owner = "bob"]
    /\ UNCHANGED <<ledgerVars, orderVars, queue, retryQueue, scan, rp, envVars>>

\* GetOrderByNumber for the order's user_id
WorkerLookup(w) ==
    /\ wk[w].pc = "lookup"
    /\ \E fault \in BOOLEAN :
         wk' = [wk EXCEPT ![w] =
                  IF fault \/ ~OrderExists(orders, wk[w].order) THEN IdleWorker
                  ELSE [@ EXCEPT !.pc = "append",
                                 !.owner = GetOrderByNumber(orders, wk[w].order).user]]
    /\ UNCHANGED <<ledgerVars, orderVars, queue, retryQueue, scan, rp, envVars>>

\* CreateTransaction(order.UserID, orderNumber, *Accrual, accrual)
WorkerAppend(w) ==
    /\ wk[w].pc = "append"
    /\ \E fault \in BOOLEAN :
         LET r == IF fault THEN [ledger |-> ledger, err |-> ErrWrapped]
                  ELSE CreateTransaction(ledger, wk[w].owner, wk[w].order,
                                         wk[w].accrual, TransactionTypeAccrual)
         IN  /\ ledger' = r.ledger
             /\ wk' = [wk EXCEPT ![w].pc = "appended", ![w].err = r.err]
    /\ UNCHANGED <<advisoryLock, wd, orderVars, queue, retryQueue, scan, rp, envVars>>

\* the error handling after CreateTransaction: ErrDuplicateAccrual is ignored,
\* another error is logged, success is logged; processOrder returns
WorkerReturn(w) ==
    /\ wk[w].pc = "appended"
    /\ wk' = [wk EXCEPT ![w] = IdleWorker]
    /\ UNCHANGED <<ledgerVars, orderVars, queue, retryQueue, scan, rp, envVars>>

\* scanPendingOrders: GetPendingOrders, or its failure (the pass ends)
ScanRead ==
    /\ scan.pc = "idle"
    /\ \E fault \in BOOLEAN :
         LET found == IF fault THEN <<>> ELSE Numbers(GetPendingOrders(orders))
         IN  scan' = IF found = <<>> THEN [pc |-> "idle", list |-> <<>>]
                     ELSE [pc |-> "offer", list |-> found]
    /\ UNCHANGED <<ledgerVars, orderVars, queue, retryQueue, wk, rp, envVars>>

\* a pass that sends with `p.queue <- order.Number` alone: it waits for room
ScanOfferBlocks ==
    /\ scan.pc = "offer"
    /\ Len(queue) < QueueSize
    /\ queue' = Append(queue, Head(scan.list))
    /\ scan' = IF Tail(scan.list) = <<>> THEN [pc |-> "idle", list |-> <<>>]
               ELSE [scan EXCEPT !.list = Tail(scan.list)]
    /\ UNCHANGED <<ledgerVars, orderVars, retryQueue, wk, rp, envVars>>

\* one iteration of the loop over the pending orders: send or skip
ScanOffer ==
    /\ scan.pc = "offer"
    /\ IF QueueClosed THEN UNCHANGED queue
       ELSE queue' \in SelectSend(queue, Head(scan.list))
    /\ scan' = IF Tail(scan.list) = <<>> \/ (CtxDone /\ queue' = queue)
               THEN [pc |-> "idle", list |-> <<>>]
               ELSE [scan EXCEPT !.list = Tail(scan.list)]
    /\ UNCHANGED <<ledgerVars, orderVars, retryQueue, wk, rp, envVars>>

NoItem == [orderNumber |-> "79927398713", wait |-> 0]

\* a retryProcessor that takes an item and forgets its retryAfter
RetryDequeueDropsWait ==
    /\ rp.pc = "idle"
    /\ retryQueue # <<>>
    /\ rp' = [pc |-> "waiting", item |-> [Head(retryQueue) EXCEPT !.wait = 0]]
    /\ retryQueue' = Tail(retryQueue)
    /\ UNCHANGED <<ledgerVars, orderVars, queue, wk, scan, envVars>>

\* case item, ok := <-p.retryQueue
RetryDequeue ==
    /\ rp.pc = "idle"
    /\ retryQueue # <<>>
    /\ rp' = [pc |-> "waiting", item |-> Head(retryQueue)]
    /\ retryQueue' = Tail(retryQueue)
    /\ UNCHANGED <<ledgerVars, orderVars, queue, wk, scan, envVars>>

\* a retryProcessor that re-queues the item without waiting for retryAfter
RetryRequeueAtOnce ==
    /\ rp.pc = "waiting"
    /\ queue' = TrySend(queue, rp.item.orderNumber)
    /\ rp' = [pc |-> "idle", item |-> NoItem]
    /\ UNCHANGED <<ledgerVars, orderVars, retryQueue, wk, scan, envVars>>

\* time.Until(item.retryAfter) is not positive, or time.After(waitDuration)
\* has fired: non-blocking send to queue
RetryRequeue ==
    /\ rp.pc = "waiting"
    /\ rp.item.wait = 0
    /\ IF QueueClosed THEN UNCHANGED queue
       ELSE queue' \in SelectSend(queue, rp.item.orderNumber)
    /\ rp' = [pc |-> IF CtxDone /\ queue' = queue THEN "exited" ELSE "idle",
              item |-> NoItem]
    /\ UNCHANGED <<ledgerVars, orderVars, retryQueue, wk, scan, envVars>>

Elapse(item) == [item EXCEPT !.wait = IF @ > 0 THEN @ - 1 ELSE 0]

\* the clock advances by one tick: every pending retryAfter comes closer
Tick ==
    /\ rp.item.wait > 0 \/ \E i \in 1..Len(retryQueue) : retryQueue[i].wait > 0
    /\ retryQueue' = [i \in 1..Len(retryQueue) |-> Elapse(retryQueue[i])]
    /\ rp' = [rp EXCEPT !.item = Elapse(@)]
    /\ UNCHANGED <<ledgerVars, orderVars, queue, wk, scan, envVars>>

\* the worker's select takes <-ctx.Done(), or finds p.queue closed and drained
WorkerExit(w) ==
    /\ wk[w].pc = "idle"
    /\ CtxDone \/ (QueueClosed /\ queue = <<>>)
    /\ wk' = [wk EXCEPT ![w].pc = "exited"]
    /\ UNCHANGED <<ledgerVars, orderVars, queue, retryQueue, scan, rp, envVars>>

\* the scanner's select takes <-ctx.Done()
ScanExit ==
    /\ scan.pc = "idle"
    /\ CtxDone
    /\ scan' = [scan EXCEPT !.pc = "exited"]
    /\ UNCHANGED <<ledgerVars, orderVars, queue, retryQueue, wk, rp, envVars>>

\* retryProcessor takes <-ctx.Done() in its outer select or while it waits
\* for retryAfter, or finds p.retryQueue closed and drained
RetryExit ==
    /\ \/ rp.pc = "idle" /\ (CtxDone \/ (RetryQueueClosed /\ retryQueue = <<>>))
       \/ rp.pc = "waiting" /\ rp.item.wait > 0 /\ CtxDone
    /\ rp' = [pc |-> "exited", item |-> NoItem]
    /\ UNCHANGED <<ledgerVars, orderVars, queue, retryQueue, wk, scan, envVars>>

\* the select of scanPendingOrders takes `p.queue <- order.Number` after close(p.queue)
ScanOfferPanics ==
    /\ scan.pc = "offer"
    /\ QueueClosed
    /\ Panic

\* the select of retryProcessor takes `p.queue <- item.orderNumber` after close(p.queue)
RetryRequeuePanics ==
    /\ rp.pc = "waiting"
    /\ rp.item.wait = 0
    /\ QueueClosed
    /\ Panic

\* the select of processOrder takes `p.retryQueue <- retryItem{...}` after
\* close(p.retryQueue)
PollRateLimitPanics(w) ==
    /\ wk[w].pc = "polling"
    /\ RetryQueueClosed
    /\ Panic

\* App.shutdown: cancel()
Cancel ==
    /\ app = "serving"
    /\ app' = "cancelled"
    /\ UNCHANGED <<ledgerVars, orderVars, poolVars, pureCall, ticker>>

\* Pool.Stop: close(p.queue)
CloseQueue ==
    /\ app = "cancelled"
    /\ app' = "queueClosed"
    /\ UNCHANGED <<ledgerVars, orderVars, poolVars, pureCall, ticker>>

\* Pool.Stop: close(p.retryQueue), then p.wg.Wait() begins
CloseRetryQueue ==
    /\ app = "queueClosed"
    /\ app' = "waiting"
    /\ UNCHANGED <<ledgerVars, orderVars, poolVars, pureCall, ticker>>

\* Pool.Stop: p.wg.Wait() returns once every goroutine has called wg.Done()
StopReturns ==
    /\ app = "waiting"
    /\ \A w \in Workers : wk[w].pc = "exited"
    /\ scan.pc = "exited"
    /\ rp.pc = "exited"
    /\ app' = "stopped"
    /\ UNCHANGED <<ledgerVars, orderVars, poolVars, pureCall, ticker>>

\* a scanner that waits for the first tick before it scans
ScanSkipsStart ==
    /\ scan.pc = "start"
    /\ scan' = [pc |-> "idle", list |-> <<>>]
    /\ UNCHANGED <<ledgerVars, orderVars, queue, retryQueue, wk, rp, envVars>>

\* Pool.scanner: the call of scanPendingOrders before the loop
ScanAtStart ==
    /\ scan.pc = "start"
    /\ \E fault \in BOOLEAN :
         LET found == IF fault THEN <<>> ELSE Numbers(GetPendingOrders(orders))
         IN  scan' = IF found = <<>> THEN [pc |-> "idle", list |-> <<>>]
                     ELSE [pc |-> "offer", list |-> found]
    /\ UNCHANGED <<ledgerVars, orderVars, queue, retryQueue, wk, rp, envVars>>

\* another ScanInterval has elapsed: the ticker puts a tick into ticker.C,
\* which holds one tick; a tick that finds one there is dropped
TickerFires ==
    /\ scan.pc \notin {"exited", "crashed"}
    /\ ticker.intervals < MaxTicks
    /\ ticker' = [ticker EXCEPT !.C = TRUE, !.intervals = @ + 1]
    /\ UNCHANGED <<ledgerVars, orderVars, poolVars, app, pureCall>>

\* Pool.scanner: case <-ticker.C: p.scanPendingOrders(ctx)
ScanOnTick ==
    /\ scan.pc = "idle"
    /\ ticker.C
    /\ ticker' = [ticker EXCEPT !.C = FALSE, !.received = @ + 1]
    /\ \E fault \in BOOLEAN :
         LET found == IF fault THEN <<>> ELSE Numbers(GetPendingOrders(orders))
         IN  scan' = IF found = <<>> THEN [pc |-> "idle", list |-> <<>>]
                     ELSE [pc |-> "offer", list |-> found]
    /\ UNCHANGED <<ledgerVars, orderVars, queue, retryQueue, wk, rp, app, pureCall>>

\* ---------------------------------------------------------- luhn.Validate
\* a character of an order number: a digit 0..9, a space, or any other rune
Space == 10
Letter == 11

\* the characters of the order numbers the callers send
Chars(n) ==
    CASE n = "79927398713" -> <<7, 9, 9, 2, 7, 3, 9, 8, 7, 1, 3>>
      [] n = "12345678903" -> <<1, 2, 3, 4, 5, 6, 7, 8, 9, 0, 3>>
      [] n = "2377225624" -> <<2, 3, 7, 7, 2, 2, 5, 6, 2, 4>>
      [] n = "79927398710" -> <<7, 9, 9, 2, 7, 3, 9, 8, 7, 1, 0>>
      [] n = "2377225625" -> <<2, 3, 7, 7, 2, 2, 5, 6, 2, 5>>
      [] n = "7992a398713" -> <<7, 9, 9, 2, Letter, 3, 9, 8, 7, 1, 3>>
      [] n = "7992 7398 713" -> <<7, 9, 9, 2, Space, 7, 3, 9, 8, Space, 7, 1, 3>>
      [] n = " " -> <<Space>>

RECURSIVE LuhnSum(_, _, _)
\* the loop of Validate from the last character down: every second digit is
\* doubled, and 9 is taken off a doubled digit above 9
LuhnSum(number, i, isSecond) ==
    IF i = 0 THEN 0
    ELSE LET digit == number[i]
             doubled == IF digit * 2 > 9 THEN digit * 2 - 9 ELSE digit * 2
         IN  (IF isSecond THEN doubled ELSE digit) + LuhnSum(number, i - 1, ~isSecond)

\* a Validate that accepts every number
ValidateAnything(chars) == TRUE

\* a Validate that only looks for digits
ValidateDigitsOnly(chars) == chars # <<>> /\ \A i \in 1..Len(chars) : chars[i] \in 0..9

\* luhn.Validate: spaces removed, then digits only, then the checksum
Validate(chars) ==
    LET number == SelectSeq(chars, LAMBDA ch : ch # Space)
    IN  /\ Len(number) # 0
        /\ \A i \in 1..Len(number) : number[i] \in 0..9
        /\ LuhnSum(number, Len(number), FALSE) % 10 = 0

RECURSIVE Strings(_, _)
\* every string of at most n characters of the alphabet
Strings(alphabet, n) ==
    IF n = 0 THEN {<<>>}
    ELSE LET shorter == Strings(alphabet, n - 1)
         IN  shorter \cup {Append(s, ch) : s \in shorter, ch \in alphabet}

\* the numbers of TestValidate that pass, and one written with spaces
ValidNumbers ==
    {<<7, 9, 9, 2, 7, 3, 9, 8, 7, 1, 3>>,
     <<1, 2, 3, 4, 5, 6, 7, 8, 9, 0, 3>>,
     <<2, 3, 7, 7, 2, 2, 5, 6, 2, 4>>,
     <<9, 2, 7, 8, 9, 2, 3, 4, 7, 0>>,
     <<4, 5, 6, 1, 2, 6, 1, 2, 1, 2, 3, 4, 5, 4, 6, 7>>,
     <<4, 5, 6, 1, Space, 2, 6, 1, 2, Space, 1, 2, 3, 4, Space, 5, 4, 6, 7>>}

\* the number with its last digit incremented modulo 10
NextLastDigit(chars) == [chars EXCEPT ![Len(chars)] = (@ + 1) % 10]

ValidateInputs ==
    Strings(0..9 \cup {Space, Letter}, MaxLen)
        \cup ValidNumbers \cup {NextLastDigit(n) : n \in ValidNumbers}

\* one call of luhn.Validate
ValidateCall(chars) ==
    /\ pureCall' = [fn |-> "Validate", arg |-> chars, ret |-> Validate(chars)]
    /\ UNCHANGED <<ledgerVars, orderVars, poolVars, app, ticker>>

\* ----------------------------------------- AccrualClient.GetOrderAccrual
\* int and time.Duration are 64 bits wide and time.Second is 10^9 Duration
\* units; the model keeps the wrapping arithmetic at a smaller width and a
\* smaller even unit
IntBits == 16
Second == 10
MaxInt == 2^(IntBits - 1) - 1
MinInt == -(2^(IntBits - 1))

\* the result of a multiplication in a signed integer of IntBits bits
WrapInt(x) == ((x + 2^(IntBits - 1)) % 2^IntBits) - 2^(IntBits - 1)

\* further characters of a header value
Plus == 12
Minus == 13

RECURSIVE DigitsValue(_)
\* the number a string of digits writes
DigitsValue(digits) ==
    IF digits = <<>> THEN 0
    ELSE 10 * DigitsValue(SubSeq(digits, 1, Len(digits) - 1)) + digits[Len(digits)]

\* strconv.Atoi: an optional sign and digits; 0 on a syntax error, the
\* nearest int on a range error (the caller drops the error)
Atoi(s) ==
    LET signed == s # <<>> /\ s[1] \in {Plus, Minus}
        digits == IF signed THEN Tail(s) ELSE s
        value == IF signed /\ s[1] = Minus THEN -DigitsValue(digits)
                 ELSE DigitsValue(digits)
    IN  IF digits = <<>> \/ \E i \in 1..Len(digits) : digits[i] \notin 0..9 THEN 0
        ELSE IF value > MaxInt THEN MaxInt
        ELSE IF value < MinInt THEN MinInt
        ELSE value

\* a response body that is no JSON document for an AccrualResponse
BadJSON == [status |-> "", accrual |-> Null, decodes |-> FALSE]

Bodies ==
    {BadJSON} \cup [status : OracleStatuses, accrual : {Null} \cup 0..MaxAccrual,
                    decodes : {TRUE}]

\* the answers of the accrual system, and a request that fails in transport;
\* header is the value of Retry-After, empty when the header is missing
Responses ==
    [failed : {FALSE}, code : {200}, body : Bodies, header : {<<>>}]
      \cup [failed : {FALSE}, code : {204, 404, 500}, body : {BadJSON}, header : {<<>>}]
      \cup [failed : {TRUE}, code : {0}, body : {BadJSON}, header : {<<>>}]
      \cup [failed : {FALSE}, code : {429}, body : {BadJSON},
            header : Strings(0..9 \cup {Plus, Minus, Letter}, MaxLen)
                        \cup {<<3, 2, 7, 6>>, <<3, 2, 7, 7>>, <<9, 9, 9, 9, 9>>}]

\* AccrualClient.GetOrderAccrual: what it returns for the answer it got
GetOrderAccrual(resp) ==
    LET other(k, d) == [kind |-> k, status |-> "", accrual |-> Null, retryAfter |-> d]
    IN  IF resp.failed THEN other("error", 0)
        ELSE CASE resp.code = 200 ->
                    IF resp.body.decodes
                    THEN [kind |-> "response", status |-> resp.body.status,
                          accrual |-> resp.body.accrual, retryAfter |-> 0]
                    ELSE other("error", 0)
               [] resp.code = 204 -> other("nil", 0)
               [] resp.code = 429 ->
                    other("RateLimitError", WrapInt(Atoi(resp.header) * Second))
               [] OTHER -> other("error", 0)

\* one call of GetOrderAccrual
GetOrderAccrualCall(resp) ==
    /\ pureCall' = [fn |-> "GetOrderAccrual", arg |-> resp, ret |-> GetOrderAccrual(resp)]
    /\ UNCHANGED <<ledgerVars, orderVars, poolVars, app, ticker>>

\* -------------------------------------------------------- BalanceService
WithdrawInputs == WithdrawOrders \cup {"2377225625"}

\* BalanceService.Withdraw up to the point where WithdrawWithLock begins its
\* transaction: the two validations return before the store is called
Withdraw(c, u, n, a) ==
    IF ~Validate(Chars(n))
    THEN /\ wd[c].pc = "idle"
         /\ \A d \in WithdrawCalls : d < c => wd[d].pc # "idle"
         /\ wd' = [wd EXCEPT ![c] = [pc |-> "rejected", user |-> u, order |-> n,
                                     amount |-> a, balance |-> 0,
                                     err |-> ErrInvalidOrderNumber]]
         /\ UNCHANGED <<ledger, advisoryLock, orderVars, poolVars, envVars>>
    ELSE IF a <= 0
    THEN /\ wd[c].pc = "idle"
         /\ \A d \in WithdrawCalls : d < c => wd[d].pc # "idle"
         /\ wd' = [wd EXCEPT ![c] = [pc |-> "rejected", user |-> u, order |-> n,
                                     amount |-> a, balance |-> 0, err |-> ErrWrapped]]
         /\ UNCHANGED <<ledger, advisoryLock, orderVars, poolVars, envVars>>
    ELSE WithdrawBegin(c, u, n, a)

\* what BalanceService.Withdraw returns for a finished call
WithdrawReturn(call) ==
    CASE call.pc = "rejected" -> call.err
      [] call.err = ErrNil -> ErrNil
      [] call.err = ErrInsufficientFunds -> ServiceErrInsufficientFunds
      [] OTHER -> ErrWrapped

\* ----------------------------------------------------------- OrderService
SubmitInputs == OrderNums \cup {"79927398710", "7992a398713"}

\* OrderService.SubmitOrder up to the INSERT of CreateOrder: a number failing
\* Validate returns before the store is called
SubmitOrder(c, u, n) ==
    IF ~Validate(Chars(n))
    THEN /\ sub[c].pc = "idle"
         /\ \A d \in SubmitCalls : d < c => sub[d].pc # "idle"
         /\ sub' = [sub EXCEPT ![c] = [pc |-> "rejected", user |-> u, number |-> n,
                                       err |-> ErrInvalidOrderNumber]]
         /\ UNCHANGED <<orders, ledgerVars, poolVars, envVars>>
    ELSE CreateOrderInsert(c, u, n)

\* a SubmitOrder that wraps every error of the store
SubmitOrderReturnWrapsAll(call) ==
    CASE call.pc = "rejected" -> call.err
      [] call.err = ErrNil -> ErrNil
      [] OTHER -> ErrWrapped

\* what OrderService.SubmitOrder returns for a finished call
SubmitOrderReturn(call) ==
    CASE call.pc = "rejected" -> call.err
      [] call.err = ErrNil -> ErrNil
      [] call.err = ErrOrderExists -> ServiceErrOrderExists
      [] call.err = ErrOrderOwnedByAnother -> ServiceErrOrderOwnedByAnother
      [] OTHER -> ErrWrapped

\* OrdersHandler.SubmitOrder: the status code for what the service returned
SubmitOrderStatus(e) ==
    CASE e = ErrNil -> 202
      [] e = ErrInvalidOrderNumber -> 422
      [] e = ServiceErrOrderExists -> 200
      [] e = ServiceErrOrderOwnedByAnother -> 409
      [] OTHER -> 500

Init ==
    /\ ledger = <<>>
    /\ advisoryLock = [u \in Users |-> NoCall]
    /\ wd = [c \in WithdrawCalls |-> IdleCall]
    /\ orders = <<>>
    /\ sub = [c \in SubmitCalls |-> IdleSubmit]
    /\ queue = <<>>
    /\ retryQueue = <<>>
    /\ wk = [w \in Workers |-> IdleWorker]
    /\ scan = [pc |-> "idle", list |-> <<>>]
    /\ rp = [pc |-> "idle", item |-> NoItem]
    /\ app = "serving"
    /\ pureCall = NoPureCall
    /\ ticker = NewTicker

NextWithdraw ==
    \/ \E c \in WithdrawCalls, u \in Users, n \in WithdrawOrders, a \in 1..MaxAmount :
          WithdrawBegin(c, u, n, a)
    \/ \E c \in WithdrawCalls : WithdrawLock(c)
    \/ \E c \in WithdrawCalls : WithdrawReadBalance(c)
    \/ \E c \in WithdrawCalls : WithdrawInsert(c)
    \/ \E c \in WithdrawCalls : WithdrawCommit(c)

NextLedger ==
    \/ NextWithdraw
    \/ \E u \in Users, n \in OrderNums, a \in 1..MaxAmount : AppendAccrual(u, n, a)

\* the ledger store under concurrent withdrawals and accrual appends
SpecLedger == Init /\ [][NextLedger]_vars

\* a ledger that holds one earlier accrual per funded user
FundedLedger(b1, b2) ==
    (IF b1 > 0 THEN <<Transaction("alice", "79927398713", b1, TransactionTypeAccrual)>>
     ELSE <<>>)
    \o (IF b2 > 0 THEN <<Transaction("bob", "12345678903", b2, TransactionTypeAccrual)>>
        ELSE <<>>)

InitBurst ==
    /\ \E b1 \in 0..MaxFunds, b2 \in 0..MaxFunds : ledger = FundedLedger(b1, b2)
    /\ advisoryLock = [u \in Users |-> NoCall]
    /\ wd = [c \in WithdrawCalls |-> IdleCall]
    /\ orders = <<>>
    /\ sub = [c \in SubmitCalls |-> IdleSubmit]
    /\ queue = <<>>
    /\ retryQueue = <<>>
    /\ wk = [w \in Workers |-> IdleWorker]
    /\ scan = [pc |-> "idle", list |-> <<>>]
    /\ rp = [pc |-> "idle", item |-> NoItem]
    /\ app = "serving"
    /\ pureCall = NoPureCall
    /\ ticker = NewTicker

\* a burst of concurrent withdrawals against existing balances, no accrual running
SpecBurst == InitBurst /\ [][NextWithdraw]_vars

\* every call keeps running: it executes its next statement, and the database
\* grants pg_advisory_xact_lock to a call that waits for a key no transaction holds
FairWithdraw ==
    \A c \in WithdrawCalls :
        /\ WF_vars(WithdrawLock(c) /\ wd'[c].pc = "locked")
        /\ WF_vars(WithdrawReadBalance(c))
        /\ WF_vars(WithdrawInsert(c))
        /\ WF_vars(WithdrawCommit(c))

\* alice's balance covers one withdrawal of the largest amount, bob has none
InitLocks ==
    /\ ledger = FundedLedger(MaxAmount, 0)
    /\ advisoryLock = [u \in Users |-> NoCall]
    /\ wd = [c \in WithdrawCalls |-> IdleCall]
    /\ orders = <<>>
    /\ sub = [c \in SubmitCalls |-> IdleSubmit]
    /\ queue = <<>>
    /\ retryQueue = <<>>
    /\ wk = [w \in Workers |-> IdleWorker]
    /\ scan = [pc |-> "idle", list |-> <<>>]
    /\ rp = [pc |-> "idle", item |-> NoItem]
    /\ app = "serving"
    /\ pureCall = NoPureCall
    /\ ticker = NewTicker

\* concurrent withdrawals by calls that keep running
SpecLocks == InitLocks /\ [][NextWithdraw]_vars /\ FairWithdraw

NextLuhn == \E chars \in ValidateInputs : ValidateCall(chars)

\* luhn.Validate applied to every input
SpecLuhn == Init /\ [][NextLuhn]_vars

NextClient == \E resp \in Responses : GetOrderAccrualCall(resp)

\* GetOrderAccrual applied to every answer
SpecClient == Init /\ [][NextClient]_vars

NextBalance ==
    \/ \E c \in WithdrawCalls, u \in Users, n \in WithdrawInputs, a \in -1..MaxAmount :
          Withdraw(c, u, n, a)
    \/ \E c \in WithdrawCalls : WithdrawLock(c)
    \/ \E c \in WithdrawCalls : WithdrawReadBalance(c)
    \/ \E c \in WithdrawCalls : WithdrawInsert(c)
    \/ \E c \in WithdrawCalls : WithdrawCommit(c)

\* BalanceService.Withdraw called concurrently against existing balances
SpecBalance == InitBurst /\ [][NextBalance]_vars

NextSubmit ==
    \/ \E c \in SubmitCalls, u \in Users, n \in OrderNums : CreateOrderInsert(c, u, n)
    \/ \E c \in SubmitCalls : CreateOrderCheck(c)

\* concurrent submissions against the order store
SpecSubmit == Init /\ [][NextSubmit]_vars

NextOrders ==
    \/ \E c \in SubmitCalls, u \in Users, n \in SubmitInputs : SubmitOrder(c, u, n)
    \/ \E c \in SubmitCalls : CreateOrderCheck(c)

\* OrderService.SubmitOrder called concurrently against an empty order store
SpecOrders == Init /\ [][NextOrders]_vars

\* the write of Pool.processOrder on the orders table: the verdict of one poll
\* of a stored order goes to UpdateOrderStatus
StoreVerdict(n, st, acc) ==
    /\ orders' = UpdateOrderStatus(orders, n, StatusToWrite(st), acc).orders
    /\ orders' # orders
    /\ UNCHANGED <<sub, ledgerVars, poolVars, envVars>>

NextResubmit ==
    \/ NextSubmit
    \/ StoreVerdict("79927398713", NilResp, Null)
    \/ \E st \in OracleStatuses, acc \in {Null} \cup 0..MaxAccrual :
          StoreVerdict("79927398713", st, acc)

\* submissions of order numbers while the pipeline writes verdicts for one of them
SpecResubmit == Init /\ [][NextResubmit]_vars

NextPool ==
    \/ \E w \in Workers : WorkerDequeue(w)
    \/ \E w \in Workers : PollTransient(w)
    \/ \E w \in Workers : PollResponse(w, NilResp, Null)
    \/ \E w \in Workers, st \in OracleStatuses, acc \in {Null} \cup 0..MaxAccrual :
          PollResponse(w, st, acc)
    \/ \E w \in Workers : WorkerLookup(w)
    \/ \E w \in Workers : WorkerAppend(w)
    \/ \E w \in Workers : WorkerReturn(w)
    \/ ScanRead
    \/ ScanOffer

NextRetry ==
    \/ \E w \in Workers, d \in 0..MaxRetryAfter : PollRateLimit(w, d)
    \/ RetryDequeue
    \/ RetryRequeue
    \/ Tick

\* one order, accepted before the pipeline looks at it
InitPipeline ==
    /\ orders = <<NewOrder("alice", "79927398713")>>
    /\ ledger = <<>>
    /\ advisoryLock = [u \in Users |-> NoCall]
    /\ wd = [c \in WithdrawCalls |-> IdleCall]
    /\ sub = [c \in SubmitCalls |-> IdleSubmit]
    /\ queue = <<>>
    /\ retryQueue = <<>>
    /\ wk = [w \in Workers |-> IdleWorker]
    /\ scan = [pc |-> "idle", list |-> <<>>]
    /\ rp = [pc |-> "idle", item |-> NoItem]
    /\ app = "serving"
    /\ pureCall = NoPureCall
    /\ ticker = NewTicker

\* the accrual pipeline working on accepted orders
SpecPipeline == InitPipeline /\ [][NextPool]_vars

\* a pool configured with Workers: 1
SingleWorker == {1}

\* the queues of a one-worker pool while the accrual system is rate limiting,
\* failing, not yet knowing the order (204) or rejecting it (INVALID)
NextQueues ==
    \/ \E w \in SingleWorker : WorkerDequeue(w)
    \/ \E w \in SingleWorker : PollTransient(w)
    \/ \E w \in SingleWorker, d \in 0..MaxRetryAfter : PollRateLimit(w, d)
    \/ \E w \in SingleWorker : PollResponse(w, NilResp, Null)
    \/ \E w \in SingleWorker : PollResponse(w, OrderStatusInvalid, Null)
    \/ ScanRead
    \/ ScanOffer
    \/ RetryDequeue
    \/ RetryRequeue
    \/ Tick

\* two accepted orders of two users
InitQueues ==
    /\ orders = <<NewOrder("alice", "79927398713"), NewOrder("bob", "12345678903")>>
    /\ ledger = <<>>
    /\ advisoryLock = [u \in Users |-> NoCall]
    /\ wd = [c \in WithdrawCalls |-> IdleCall]
    /\ sub = [c \in SubmitCalls |-> IdleSubmit]
    /\ queue = <<>>
    /\ retryQueue = <<>>
    /\ wk = [w \in Workers |-> IdleWorker]
    /\ scan = [pc |-> "idle", list |-> <<>>]
    /\ rp = [pc |-> "idle", item |-> NoItem]
    /\ app = "serving"
    /\ pureCall = NoPureCall
    /\ ticker = NewTicker

SpecQueues == InitQueues /\ [][NextQueues]_vars

\* what one call of Pool.processOrder that got the response (st, acc) for the
\* stored order n writes when no statement fails: the status and accrual of
\* the order, and for an accrual that is due a transaction for the order's user
ProcessVerdict(n, st, acc) ==
    /\ OrderExists(orders, n)
    /\ orders' = UpdateOrderStatus(orders, n, StatusToWrite(st), acc).orders
    /\ ledger' = IF WantsAccrual(st, acc)
                 THEN CreateTransaction(ledger, GetOrderByNumber(orders, n).user, n,
                                        acc, TransactionTypeAccrual).ledger
                 ELSE ledger
    /\ UNCHANGED <<advisoryLock, wd, sub, poolVars, envVars>>

\* the numbers a withdrawal is asked to pay for: one no order has, one that
\* fails the Luhn check, and the number of a stored order
BooksInputs == WithdrawInputs \cup {"79927398713"}

\* one request to withdraw
SingleCall == {1}

NextBooks ==
    \/ \E c \in SingleCall, u \in Users, n \in BooksInputs, a \in -1..MaxAmount :
          Withdraw(c, u, n, a)
    \/ \E c \in SingleCall : WithdrawLock(c)
    \/ \E c \in SingleCall : WithdrawReadBalance(c)
    \/ \E c \in SingleCall : WithdrawInsert(c)
    \/ \E c \in SingleCall : WithdrawCommit(c)
    \/ \E st \in {OrderStatusInvalid, OrderStatusProcessed}, acc \in {Null} \cup 0..MaxAccrual :
          ProcessVerdict("79927398713", st, acc)

\* alice's order is accepted, bob's has been credited
InitBooks ==
    /\ orders = <<NewOrder("alice", "79927398713"),
                  [NewOrder("bob", "12345678903") EXCEPT !.status = OrderStatusProcessed,
                                                         !.accrual = MaxFunds]>>
    /\ ledger = <<Transaction("bob", "12345678903", MaxFunds, TransactionTypeAccrual)>>
    /\ advisoryLock = [u \in Users |-> NoCall]
    /\ wd = [c \in WithdrawCalls |-> IdleCall]
    /\ sub = [c \in SubmitCalls |-> IdleSubmit]
    /\ queue = <<>>
    /\ retryQueue = <<>>
    /\ wk = [w \in Workers |-> IdleWorker]
    /\ scan = [pc |-> "idle", list |-> <<>>]
    /\ rp = [pc |-> "idle", item |-> NoItem]
    /\ app = "serving"
    /\ pureCall = NoPureCall
    /\ ticker = NewTicker

\* a withdrawal through BalanceService while the pipeline settles an order
SpecBooks == InitBooks /\ [][NextBooks]_vars

\* the scanner goroutine from its start to its exit, its ticker, a worker that
\* empties the queue, and the cancellation of the context
NextScanner ==
    \/ ScanAtStart
    \/ TickerFires
    \/ ScanOnTick
    \/ ScanOffer
    \/ ScanExit
    \/ Cancel
    \/ \E w \in SingleWorker : WorkerDequeue(w)
    \/ \E w \in SingleWorker : PollTransient(w)
    \/ \E w \in SingleWorker : PollResponse(w, OrderStatusInvalid, Null)

\* two accepted orders; Pool.Start has just started the scanner
InitScanner ==
    /\ orders = <<NewOrder("alice", "79927398713"), NewOrder("bob", "12345678903")>>
    /\ ledger = <<>>
    /\ advisoryLock = [u \in Users |-> NoCall]
    /\ wd = [c \in WithdrawCalls |-> IdleCall]
    /\ sub = [c \in SubmitCalls |-> IdleSubmit]
    /\ queue = <<>>
    /\ retryQueue = <<>>
    /\ wk = [w \in Workers |-> IdleWorker]
    /\ scan = [pc |-> "start", list |-> <<>>]
    /\ rp = [pc |-> "idle", item |-> NoItem]
    /\ app = "serving"
    /\ pureCall = NoPureCall
    /\ ticker = NewTicker

SpecScanner == InitScanner /\ [][NextScanner]_vars

\* ------------------------------------------------------------------ claims
Min(a, b) == IF a < b THEN a ELSE b

InWindow(call) == call.pc \in {"read", "inserted"}

WithdrawalRows(l, u) == SelectSeq(UserRows(l, u), LAMBDA e : e.type = TransactionTypeWithdrawal)

AccrualRows(l, u) == SelectSeq(UserRows(l, u), LAMBDA e : e.type = TransactionTypeAccrual)

CallsOf(u) == {c \in WithdrawCalls : wd[c].pc # "idle" /\ wd[c].user = u}

\* C1: every user's ledger sum is >= 0 in every reachable state, and no
\* withdrawal commits while the balance at its commit is below its amount.
C1_BalanceNeverNegative ==
    /\ [](\A u \in Users : SumBalance(ledger, u) >= 0)
    /\ [][\A c \in WithdrawCalls :
            (wd[c].pc = "inserted" /\ wd'[c].err = ErrNil)
                => SumBalance(ledger, wd[c].user) >= wd[c].amount]_vars

\* a withdrawal succeeded and another was refused for the same user, whose
\* accrued funds are spent to zero
C1_Witness ==
    \E u \in Users, c, d \in WithdrawCalls :
        /\ wd[c].user = u /\ wd[c].err = ErrNil
        /\ wd[d].user = u /\ wd[d].err = ErrInsufficientFunds
        /\ Len(AccrualRows(ledger, u)) > 0
        /\ SumBalance(ledger, u) = 0

\* C2: of k concurrent withdrawals of one amount a against balance B, with
\* no accrual running, exactly min(k, B div a) succeed, the others get
\* ErrInsufficientFunds, and the ledger gains one withdrawal row per success
\* (k counts the calls the database did not fail).
C2_BurstSucceedsExactly ==
    \A u \in Users, a \in 1..MaxAmount :
        LET answered == {c \in CallsOf(u) : wd[c].err # ErrWrapped}
            succeeded == {c \in CallsOf(u) : wd[c].err = ErrNil}
            funds == SumAmounts(AccrualRows(ledger, u))
        IN  (/\ \A c \in WithdrawCalls : wd[c].pc = "done"
             /\ \A c \in CallsOf(u) : wd[c].amount = a)
            => /\ Cardinality(succeeded) = Min(Cardinality(answered), funds \div a)
               /\ \A c \in answered \ succeeded : wd[c].err = ErrInsufficientFunds
               /\ Len(WithdrawalRows(ledger, u)) = Cardinality(succeeded)
               /\ SumBalance(ledger, u) = funds - a * Cardinality(succeeded)

\* every call withdrew from the same user; one was paid and one refused
C2_Witness ==
    \E u \in Users :
        /\ \A c \in WithdrawCalls : wd[c].pc = "done" /\ wd[c].user = u
        /\ \E c, d \in WithdrawCalls :
              wd[c].err = ErrNil /\ wd[d].err = ErrInsufficientFunds
        /\ SumBalance(ledger, u) = 0

Transitions ==
    {<<OrderStatusNew, OrderStatusProcessing>>, <<OrderStatusNew, OrderStatusProcessed>>,
     <<OrderStatusNew, OrderStatusInvalid>>, <<OrderStatusProcessing, OrderStatusProcessed>>,
     <<OrderStatusProcessing, OrderStatusInvalid>>}

OrderAccruals(l, n) == SelectSeq(l, LAMBDA e : e.type = TransactionTypeAccrual /\ e.order = n)

\* the statuses of domain.OrderStatus
OrderStatuses ==
    {OrderStatusNew, OrderStatusProcessing, OrderStatusInvalid, OrderStatusProcessed}

\* C4: every change of an order's stored status from one of the four order
\* statuses to another is one of NEW->PROCESSING, NEW->PROCESSED, NEW->INVALID,
\* PROCESSING->PROCESSED, PROCESSING->INVALID; in particular a stored PROCESSED
\* or INVALID is never changed by a later update
C4_StatusOnlyMovesForward ==
    [][\A i \in 1..Len(orders) :
          (/\ orders'[i].status # orders[i].status
           /\ orders[i].status \in OrderStatuses
           /\ orders'[i].status \in OrderStatuses)
              => <<orders[i].status, orders'[i].status>> \in Transitions]_vars

\* C5: the ledger never holds two accrual rows for one order number, whatever
\* number of workers append for the same order and however often they do
C5_OneAccrualPerOrder ==
    \A n \in OrderNums : Len(OrderAccruals(ledger, n)) <= 1

\* one worker has appended the accrual, another one is about to append it too
C5_Witness ==
    \E w, v \in Workers :
        /\ w # v
        /\ wk[w].pc = "appended" /\ wk[w].err = ErrNil
        /\ wk[v].pc = "append" /\ wk[v].order = wk[w].order
        /\ Len(OrderAccruals(ledger, wk[w].order)) = 1

\* C6: an accrual append for an order that already has its accrual row adds no
\* row, answers ErrDuplicateAccrual (the wrapped error only when the statement
\* itself failed) and leaves the owner's balance as the first append made it:
\* appending twice raises the balance by the amount exactly once
C6_SecondAppendIsDuplicate ==
    /\ [](\A u \in Users, n \in OrderNums, a \in 1..MaxAccrual :
            LET first == CreateTransaction(ledger, u, n, a, TransactionTypeAccrual)
                second == CreateTransaction(first.ledger, u, n, a, TransactionTypeAccrual)
            IN  first.err = ErrNil
                    => /\ second.err = ErrDuplicateAccrual
                       /\ second.ledger = first.ledger
                       /\ SumBalance(second.ledger, u) = SumBalance(ledger, u) + a)
    /\ [][\A w \in Workers :
            (/\ wk[w].pc = "append"
             /\ wk'[w].pc = "appended"
             /\ AccrualExists(ledger, wk[w].order))
                => /\ ledger' = ledger
                   /\ wk'[w].err \in {ErrDuplicateAccrual, ErrWrapped}]_vars

\* a worker got ErrDuplicateAccrual from its append; the row of the first append is there
C6_Witness ==
    \E w \in Workers :
        /\ wk[w].pc = "appended" /\ wk[w].err = ErrDuplicateAccrual
        /\ Len(OrderAccruals(ledger, wk[w].order)) = 1
        /\ SumBalance(ledger, wk[w].owner) = OrderAccruals(ledger, wk[w].order)[1].amount

OrderRows(os, n) == SelectSeq(os, LAMBDA o : o.number = n)

\* C7: under any interleaving of CreateOrder calls the store holds at most one
\* row per number and at most one call per number returns a new order; every
\* other call the store answered returns ErrOrderOwnedByAnother when the stored
\* row belongs to another user and ErrOrderExists when it belongs to the caller
C7_OneOrderPerNumber ==
    \A n \in OrderNums :
        /\ Len(OrderRows(orders, n)) <= 1
        /\ Cardinality({c \in SubmitCalls :
               sub[c].pc = "done" /\ sub[c].number = n /\ sub[c].err = ErrNil}) <= 1
        /\ \A c \in SubmitCalls :
             (sub[c].pc = "done" /\ sub[c].number = n /\ sub[c].err \notin {ErrNil, ErrWrapped})
                 => /\ Len(OrderRows(orders, n)) = 1
                    /\ sub[c].err = IF OrderRows(orders, n)[1].user # sub[c].user
                                    THEN ErrOrderOwnedByAnother
                                    ELSE ErrOrderExists

\* three calls for one number: one created the order, the owner's second call
\* and another user's call were turned away
C7_Witness ==
    \E c, d, e \in SubmitCalls :
        /\ sub[c].pc = "done" /\ sub[d].pc = "done" /\ sub[e].pc = "done"
        /\ sub[c].number = sub[d].number /\ sub[c].number = sub[e].number
        /\ sub[c].err = ErrNil
        /\ sub[d].err = ErrOrderOwnedByAnother /\ sub[d].user # sub[c].user
        /\ sub[e].err = ErrOrderExists /\ sub[e].user = sub[c].user

\* C8: an order with an accrual row in the ledger has stored status PROCESSED
C8_CreditedOrderIsProcessed ==
    \A i \in 1..Len(ledger) :
        ledger[i].type = TransactionTypeAccrual
            => \A j \in 1..Len(orders) :
                 orders[j].number = ledger[i].order => orders[j].status = OrderStatusProcessed

\* a scheduler that keeps running every worker and the scanner
FairPool ==
    /\ \A w \in Workers :
         WF_vars(\/ WorkerDequeue(w)
                 \/ PollTransient(w)
                 \/ PollResponse(w, NilResp, Null)
                 \/ \E st \in OracleStatuses, acc \in {Null} \cup 0..MaxAccrual :
                       PollResponse(w, st, acc)
                 \/ WorkerLookup(w)
                 \/ WorkerAppend(w)
                 \/ WorkerReturn(w))
    /\ WF_vars(ScanRead \/ ScanOffer)

\* the accrual pipeline under that scheduler
SpecPipelineFair == SpecPipeline /\ FairPool

\* the order is stored as PROCESSED with a positive accrual, has no accrual row,
\* and no worker is between the status write and the append for it
Uncredited(n) ==
    /\ \E j \in 1..Len(orders) :
          /\ orders[j].number = n
          /\ orders[j].status = OrderStatusProcessed
          /\ orders[j].accrual # Null /\ orders[j].accrual > 0
    /\ ~AccrualExists(ledger, n)
    /\ \A w \in Workers : ~(wk[w].pc \in {"lookup", "append"} /\ wk[w].order = n)

\* C9: an order stored as PROCESSED with a positive accrual whose ledger append
\* did not happen is polled again and its accrual row is eventually appended
C9_LostAppendIsRepeated ==
    \A n \in OrderNums : Uncredited(n) ~> AccrualExists(ledger, n)

\* C10: a stored order has a non-null accrual only with status PROCESSED, and
\* every order stored as PROCESSED has a non-null accrual
C10_AccrualIffProcessed ==
    \A j \in 1..Len(orders) :
        (orders[j].accrual # Null) <=> (orders[j].status = OrderStatusProcessed)

\* ------------------------------------------------------------------ rate limiting
\* the retry items that exist, queued or held by the retryProcessor
PendingRetries ==
    {retryQueue[i] : i \in 1..Len(retryQueue)}
        \cup (IF rp.pc = "waiting" THEN {rp.item} ELSE {})

\* C11: the worker that got RateLimit(d) does not wait for d: the step that ends
\* its poll returns it to dequeuing with no time passed (no retry item is any
\* closer to its retryAfter), and an idle worker takes the next queued order
\* whatever retry items are still waiting
C11_WorkerDoesNotWait ==
    /\ [](\A w \in SingleWorker :
            (wk[w].pc = "idle" /\ queue # <<>>) => ENABLED WorkerDequeue(w))
    /\ [][\A w \in SingleWorker :
            (wk[w].pc = "polling" /\ wk'[w].pc # "polling")
                => /\ wk'[w].pc \in {"idle", "lookup"}
                   /\ rp' = rp
                   /\ \/ retryQueue' = retryQueue
                      \/ \E d \in 0..MaxRetryAfter :
                            retryQueue' = Append(retryQueue,
                                [orderNumber |-> wk[w].order, wait |-> d])]_vars

\* the single worker polls the second order while the rate-limited first one
\* still has its whole Retry-After to wait
C11_Witness ==
    \E w \in SingleWorker, r \in PendingRetries :
        /\ wk[w].pc = "polling"
        /\ wk[w].order # r.orderNumber
        /\ r.wait = MaxRetryAfter
        /\ r.wait > 0

\* ------------------------------------------------------------------ completion
\* the whole pool: workers, scanner, retryProcessor and the clock
NextService ==
    \/ NextPool
    \/ NextRetry

\* the retryProcessor keeps running and time keeps passing
FairRetry ==
    /\ WF_vars(RetryDequeue \/ RetryRequeue)
    /\ WF_vars(Tick)

\* the database does not fail a statement for ever: a worker's status update,
\* owner lookup and insert, and the scanner's query, succeed again and again
FairStore ==
    /\ \A w \in Workers :
         /\ SF_vars(\E st \in OracleStatuses \cup {NilResp}, acc \in {Null} \cup 0..MaxAccrual :
                       /\ PollResponse(w, st, acc)
                       /\ orders' # orders \/ wk'[w].pc = "lookup")
         /\ SF_vars(WorkerLookup(w) /\ wk'[w].pc = "append")
         /\ SF_vars(WorkerAppend(w) /\ wk'[w].err # ErrWrapped)
    /\ SF_vars(ScanRead /\ scan'.pc = "offer")

\* the running service under the Go scheduler and a database that recovers
SpecService == InitPipeline /\ [][NextService]_vars /\ FairPool /\ FairRetry /\ FairStore

\* the terminal verdicts of the accrual system
TerminalVerdicts ==
    {[status |-> OrderStatusInvalid, accrual |-> Null]}
        \cup {[status |-> OrderStatusProcessed, accrual |-> a] : a \in {Null} \cup 0..MaxAccrual}

\* a worker's poll ends with something else than the verdict v
AnsweredOtherwise(v) ==
    \E w \in Workers :
        /\ wk[w].pc = "polling"
        /\ wk'[w].pc # "polling"
        /\ ~PollResponse(w, v.status, v.accrual)

\* the store holds the verdict's status for the order and, when the verdict
\* grants points, the ledger holds the order's accrual row
Completed(n, v) ==
    /\ \E j \in 1..Len(orders) : orders[j].number = n /\ orders[j].status = v.status
    /\ WantsAccrual(v.status, v.accrual) => AccrualExists(ledger, n)

\* the accrual system gave, and the store took, a terminal verdict other than v
OtherVerdictStored(n, v) ==
    \E j \in 1..Len(orders) :
        /\ orders[j].number = n
        /\ orders[j].status \in {OrderStatusInvalid, OrderStatusProcessed}
        /\ <<orders[j].status, orders[j].accrual>> # <<v.status, v.accrual>>

\* C12: when from some point on every poll of the order is answered with one
\* terminal verdict v (and no other terminal verdict was given before), the
\* store eventually holds that status and, for PROCESSED with a positive
\* accrual, the ledger eventually holds the accrual row, whatever non-terminal
\* answers, rate limits and transient errors came before
C12_EventuallyCompleted ==
    \A v \in TerminalVerdicts :
        \/ []<><<AnsweredOtherwise(v)>>_vars
        \/ <>OtherVerdictStored("79927398713", v)
        \/ <>Completed("79927398713", v)

\* ------------------------------------------------------------------ scan passes
\* the numbers of the stored orders that are NEW or PROCESSING, oldest first
PendingNumbers ==
    LET idx == {j \in 1..Len(orders) :
                   orders[j].status \in {OrderStatusNew, OrderStatusProcessing}}
        RECURSIVE Upto(_)
        Upto(k) == IF k = 0 THEN <<>>
                   ELSE IF k \in idx THEN Append(Upto(k - 1), orders[k].number)
                   ELSE Upto(k - 1)
    IN  Upto(Len(orders))

\* the scanner offers the next order of its pass
OfferStep == scan.pc = "offer" /\ scan' # scan

Queued(q) == {q[i] : i \in 1..Len(q)}

C14_OnlyOrderStatusesStored ==
    \A j \in 1..Len(orders) : orders[j].status \in OrderStatuses

\* ------------------------------------------------------------------ withdrawals
\* C15: a withdrawal whose amount exceeds the balance it read (the user's
\* ledger sum at that moment) returns ErrInsufficientFunds, appends nothing
\* and releases the user's advisory lock
C15_RefusedWithdrawalLeavesLedger ==
    /\ [][\A c \in WithdrawCalls :
            (wd[c].pc = "locked" /\ wd'[c].pc = "read")
                => wd'[c].balance = SumBalance(ledger, wd[c].user)]_vars
    /\ [][\A c \in WithdrawCalls :
            (wd[c].pc = "read" /\ wd[c].balance < wd[c].amount /\ wd'[c] # wd[c])
                => /\ wd'[c].pc = "done"
                   /\ wd'[c].err = ErrInsufficientFunds
                   /\ ledger' = ledger
                   /\ advisoryLock[wd[c].user] = c
                   /\ advisoryLock'[wd[c].user] = NoCall]_vars
    /\ [](\A c \in WithdrawCalls :
            wd[c].err = ErrInsufficientFunds
                => \A u \in Users : advisoryLock[u] # c)

\* a refused withdrawal: its user's balance is below the amount, the lock is free
C15_Witness ==
    \E c \in WithdrawCalls :
        /\ wd[c].pc = "done" /\ wd[c].err = ErrInsufficientFunds
        /\ SumBalance(ledger, wd[c].user) < wd[c].amount
        /\ advisoryLock[wd[c].user] = NoCall
        /\ Len(UserRows(ledger, wd[c].user)) > 0

\* C16: a withdrawal of a > 0 that finds balance >= a (balance = a included) is
\* not refused, and its commit appends exactly the row (user, order, -a,
\* withdrawal): GetBalance then shows current lower by a and withdrawn higher
\* by a, and GetWithdrawals shows one more entry, of sum a
C16_WithdrawalAppendsOneDebit ==
    /\ [][\A c \in WithdrawCalls :
            (wd[c].pc = "read" /\ wd[c].balance >= wd[c].amount /\ wd'[c] # wd[c])
                => wd'[c].err # ErrInsufficientFunds]_vars
    /\ [][\A c \in WithdrawCalls :
            (wd[c].pc = "inserted" /\ wd'[c].pc = "done" /\ wd'[c].err = ErrNil)
                => LET u == wd[c].user
                       a == wd[c].amount
                       row == Transaction(u, wd[c].order, -a, TransactionTypeWithdrawal)
                   IN  /\ a > 0
                       /\ SumBalance(ledger, u) >= a
                       /\ ledger' = Append(ledger, row)
                       /\ GetBalance(ledger', u).current = GetBalance(ledger, u).current - a
                       /\ GetBalance(ledger', u).withdrawn = GetBalance(ledger, u).withdrawn + a
                       /\ GetWithdrawals(ledger', u)
                              = <<[row EXCEPT !.amount = a]>> \o GetWithdrawals(ledger, u)]_vars

\* a withdrawal of the whole balance succeeded: current is 0, withdrawn is its
\* amount, and it is the user's only withdrawal
C16_Witness ==
    \E c \in WithdrawCalls :
        /\ wd[c].pc = "done" /\ wd[c].err = ErrNil
        /\ GetBalance(ledger, wd[c].user) = [current |-> 0, withdrawn |-> wd[c].amount]
        /\ Len(GetWithdrawals(ledger, wd[c].user)) = 1
        /\ GetWithdrawals(ledger, wd[c].user)[1].amount = wd[c].amount

\* C17: BalanceService.Withdraw answers an order number failing Luhn with
\* ErrInvalidOrderNumber whatever the amount, and a Luhn-valid number with an
\* amount <= 0 with an error of its own, one that is neither the generic error
\* of a failed store call nor any other error of the service; in both cases no
\* transaction is begun, no lock taken and the ledger is unchanged
C17_WithdrawValidatesInput ==
    [][\A c \in WithdrawCalls :
         (wd[c].pc = "idle" /\ wd'[c].pc # "idle")
            => LET call == wd'[c]
               IN  /\ ~Validate(Chars(call.order))
                        => /\ call.pc = "rejected"
                           /\ WithdrawReturn(call) = ErrInvalidOrderNumber
                           /\ ledger' = ledger /\ advisoryLock' = advisoryLock
                   /\ (Validate(Chars(call.order)) /\ call.amount <= 0)
                        => /\ call.pc = "rejected"
                           /\ WithdrawReturn(call) \notin
                                 {ErrNil, ErrWrapped, ErrInvalidOrderNumber,
                                  ServiceErrInsufficientFunds}
                           /\ ledger' = ledger /\ advisoryLock' = advisoryLock]_vars

C20_BalanceIsLedgerSum ==
    \A u \in Users :
        LET b == GetBalance(ledger, u)
            negative == SelectSeq(UserRows(ledger, u), LAMBDA e : e.amount < 0)
        IN  /\ b.withdrawn = -SumAmounts(negative)
            /\ b.withdrawn = SumAmounts(GetWithdrawals(ledger, u))
            /\ b.current = SumBalance(ledger, u)
            /\ b.current + b.withdrawn = SumAmounts(AccrualRows(ledger, u))

\* a user with accruals and a withdrawal, and points left
C20_Witness ==
    \E u \in Users :
        /\ GetBalance(ledger, u).current > 0
        /\ GetBalance(ledger, u).withdrawn > 0
        /\ Len(AccrualRows(ledger, u)) > 1
        /\ \E c \in WithdrawCalls : wd[c].pc = "read" /\ wd[c].user = u

\* C21: every stored order keeps its place, its number and its owner at every
\* step: no submission of any user and no status write of the pipeline
\* changes the user_id of an order
C21_OwnerNeverChanges ==
    [][/\ Len(orders') >= Len(orders)
       /\ \A i \in 1..Len(orders) :
             /\ orders'[i].number = orders[i].number
             /\ orders'[i].user = orders[i].user]_vars

\* an order whose status the pipeline has written and which another user
\* has tried to submit is still its first owner's
C21_Witness ==
    \E c, d \in SubmitCalls :
        /\ sub[c].pc = "done" /\ sub[c].err = ErrNil
        /\ sub[d].pc = "done" /\ sub[d].err = ErrOrderOwnedByAnother
        /\ sub[d].number = sub[c].number /\ sub[d].user # sub[c].user
        /\ \E i \in 1..Len(orders) :
              /\ orders[i].number = sub[c].number
              /\ orders[i].user = sub[c].user
              /\ orders[i].status = OrderStatusInvalid

\* the Luhn predicate as the specification words it: without its spaces the
\* input is a non-empty string of digits whose digits, every second one from
\* the right replaced by the digit sum of its double, add up to 0 modulo 10
LuhnReference(chars) ==
    LET digits == SelectSeq(chars, LAMBDA ch : ch # Space)
        n == Len(digits)
        Weighted(k) == LET d == digits[n + 1 - k]
                       IN  IF k % 2 = 0 THEN ((2 * d) \div 10) + ((2 * d) % 10) ELSE d
        sum[k \in 0..n] == IF k = 0 THEN 0 ELSE sum[k - 1] + Weighted(k)
    IN  /\ n > 0
        /\ \A i \in 1..n : digits[i] \in 0..9
        /\ sum[n] % 10 = 0

\* C22: Validate answers every input, and its answer is the Luhn predicate of
\* the input; it is true for the numbers known to be valid and false for each
\* of them with the last digit incremented modulo 10
C22_ValidateIsLuhn ==
    pureCall.fn = "Validate"
        => /\ pureCall.ret \in BOOLEAN
           /\ pureCall.ret = LuhnReference(pureCall.arg)
           /\ pureCall.arg \in ValidNumbers => pureCall.ret
           /\ pureCall.arg \in {NextLastDigit(n) : n \in ValidNumbers} => ~pureCall.ret

\* a valid number written with spaces was accepted
C22_Witness ==
    /\ pureCall.fn = "Validate"
    /\ Len(pureCall.arg) = 19
    /\ \E i \in 1..Len(pureCall.arg) : pureCall.arg[i] = Space
    /\ pureCall.ret = TRUE

\* a header value that writes an integer number of seconds
WritesSeconds(h) ==
    LET digits == IF h # <<>> /\ h[1] \in {Plus, Minus} THEN Tail(h) ELSE h
    IN  digits # <<>> /\ \A i \in 1..Len(digits) : digits[i] \in 0..9

\* the number of seconds it writes
SecondsWritten(h) ==
    IF h[1] = Minus THEN -DigitsValue(Tail(h))
    ELSE IF h[1] = Plus THEN DigitsValue(Tail(h))
    ELSE DigitsValue(h)

\* C23: GetOrderAccrual maps the answer to exactly one outcome: 200 with a
\* decodable body to the response with the body's fields, 204 to nil, 429 to
\* a RateLimitError whose RetryAfter is the number of seconds the Retry-After
\* header writes, and 0 when the header is missing or writes no number, and
\* every other answer to an error that is no RateLimitError
C23_OneOutcomePerAnswer ==
    pureCall.fn = "GetOrderAccrual"
        => LET resp == pureCall.arg
               out == pureCall.ret
           IN  /\ (~resp.failed /\ resp.code = 200 /\ resp.body.decodes)
                    => /\ out.kind = "response"
                       /\ out.status = resp.body.status
                       /\ out.accrual = resp.body.accrual
               /\ (~resp.failed /\ resp.code = 204) => out.kind = "nil"
               /\ (~resp.failed /\ resp.code = 429)
                    => /\ out.kind = "RateLimitError"
                       /\ out.retryAfter = IF WritesSeconds(resp.header)
                                           THEN SecondsWritten(resp.header) * Second
                                           ELSE 0
               /\ (\/ resp.failed
                   \/ resp.code \notin {200, 204, 429}
                   \/ resp.code = 200 /\ ~resp.body.decodes)
                    => out.kind = "error"

NextShutdown ==
    \/ NextPool
    \/ NextRetry
    \/ \E w \in Workers : WorkerExit(w)
    \/ ScanExit
    \/ RetryExit
    \/ ScanOfferPanics
    \/ RetryRequeuePanics
    \/ \E w \in Workers : PollRateLimitPanics(w)
    \/ Cancel
    \/ CloseQueue
    \/ CloseRetryQueue
    \/ StopReturns

\* a select with several ready cases takes each of them sooner or later, so a
\* goroutine that can leave on <-ctx.Done() does not pass it by forever
FairShutdown ==
    /\ \A w \in Workers : SF_vars(WorkerExit(w))
    /\ SF_vars(ScanExit)
    /\ SF_vars(RetryExit)
    /\ WF_vars(CloseQueue) /\ WF_vars(CloseRetryQueue) /\ WF_vars(StopReturns)

\* the pool of one accepted order, shut down at any moment by App.shutdown
SpecShutdown ==
    InitPipeline /\ [][NextShutdown]_vars /\ FairPool /\ FairRetry /\ FairShutdown

\* C24: once the context is cancelled, Stop is called and returns, with every
\* worker, the scanner and the retryProcessor terminated
C24_StopReturns ==
    (app = "cancelled")
        ~> (/\ app = "stopped"
            /\ \A w \in Workers : wk[w].pc = "exited"
            /\ scan.pc = "exited"
            /\ rp.pc = "exited")

\* C25: a worker continues to the owner lookup only after UpdateOrderStatus
\* has stored PROCESSED with the accrual a > 0 of the response; the ledger
\* changes in a pipeline step only by the insert of that worker, which appends
\* the one row (owner of the order in the store, order, a, accrual); and after
\* ErrDuplicateAccrual, with the ledger unchanged, the worker returns to its
\* queue as after a successful insert
C25_ProcessedVerdictCreditsOwner ==
    [][\A w \in Workers :
         /\ (wk'[w].pc = "lookup" /\ wk[w].pc # "lookup")
              => /\ wk[w].pc = "polling"
                 /\ wk'[w].accrual > 0
                 /\ wk'[w].order = wk[w].order
                 /\ OrderExists(orders', wk[w].order)
                 /\ GetOrderByNumber(orders', wk[w].order).status = OrderStatusProcessed
                 /\ GetOrderByNumber(orders', wk[w].order).accrual = wk'[w].accrual
                 /\ ledger' = ledger
         /\ (wk'[w].pc = "append" /\ wk[w].pc # "append")
              => wk[w].pc = "lookup" /\ wk'[w].accrual = wk[w].accrual /\ ledger' = ledger
         /\ (wk[w].pc = "append" /\ wk'[w] # wk[w])
              => /\ wk'[w].pc = "appended"
                 /\ \/ ledger' = ledger /\ wk'[w].err # ErrNil
                    \/ /\ wk'[w].err = ErrNil
                       /\ ledger' = Append(ledger,
                              Transaction(GetOrderByNumber(orders, wk[w].order).user,
                                          wk[w].order, wk[w].accrual,
                                          TransactionTypeAccrual))
         /\ (wk[w].pc = "appended" /\ wk'[w] # wk[w])
              => wk'[w] = IdleWorker /\ ledger' = ledger /\ orders' = orders
         /\ (ledger' # ledger) => \E v \in Workers : wk[v].pc = "append"]_vars

\* one worker has credited the owner and returned, and another, given the
\* same verdict, has met ErrDuplicateAccrual
C25_Witness ==
    \E w \in Workers :
        /\ wk[w].pc = "appended" /\ wk[w].err = ErrDuplicateAccrual
        /\ ledger = <<Transaction("alice", wk[w].order, MaxAccrual, TransactionTypeAccrual)>>
        /\ GetOrderByNumber(orders, wk[w].order).user = "alice"
        /\ GetOrderByNumber(orders, wk[w].order).status = OrderStatusProcessed

\* all rows of the orders table but the one of order n are as before
OthersUnchanged(n) ==
    /\ Len(orders') = Len(orders)
    /\ \A i \in 1..Len(orders) :
          /\ orders'[i].number = orders[i].number
          /\ orders'[i].user = orders[i].user
          /\ orders[i].number # n => orders'[i] = orders[i]

\* C26: a worker answered (nil, nil) appends nothing to the ledger and
\* returns to its queue; its write, unless the store fails it, leaves the
\* order with status PROCESSING and a null accrual, every other order as it
\* was, and the order among those GetPendingOrders selects; and the write that
\* stores PROCESSING is a step the worker can take
C26_NotRegisteredStaysPending ==
  /\ [](\A w \in Workers :
          wk[w].pc = "polling"
             => ENABLED (/\ PollResponse(w, NilResp, Null)
                         /\ GetOrderByNumber(orders', wk[w].order).status
                               = OrderStatusProcessing))
  /\ [][\A w \in Workers :
         PollResponse(w, NilResp, Null)
            => /\ ledger' = ledger
               /\ wk'[w] = IdleWorker
               /\ \/ orders' = orders
                  \/ /\ OthersUnchanged(wk[w].order)
                     /\ GetOrderByNumber(orders', wk[w].order).status = OrderStatusProcessing
                     /\ GetOrderByNumber(orders', wk[w].order).accrual = Null
                     /\ \E i \in 1..Len(GetPendingOrders(orders')) :
                           GetPendingOrders(orders')[i].number = wk[w].order]_vars

\* the order is stored as PROCESSING without accrual, nothing is credited,
\* and the next scan has selected it again
C26_Witness ==
    /\ ledger = <<>>
    /\ orders = <<[number |-> "79927398713", user |-> "alice",
                   status |-> OrderStatusProcessing, accrual |-> Null]>>
    /\ scan = [pc |-> "offer", list |-> <<"79927398713">>]
    /\ \A w \in Workers : wk[w].pc = "idle"

\* a worker's step on an outcome of GetOrderAccrual that is no PROCESSED
\* response: an error, a RateLimitError, (nil, nil), or another status
OtherOutcome(w) ==
    \/ PollTransient(w)
    \/ \E d \in 0..MaxRetryAfter : PollRateLimit(w, d)
    \/ PollResponse(w, NilResp, Null)
    \/ \E st \in OracleStatuses \ {OrderStatusProcessed}, acc \in {Null} \cup 0..MaxAccrual :
          PollResponse(w, st, acc)

\* C27: a worker's step on an outcome other than a PROCESSED response leaves
\* the ledger as it is and ends the processing of the order; on an INVALID
\* response its write, unless the store fails it, leaves the order with
\* status INVALID and a null accrual
C27_OnlyProcessedCredits ==
    [][\A w \in Workers :
         /\ OtherOutcome(w) => ledger' = ledger /\ wk'[w] = IdleWorker
         /\ \A acc \in {Null} \cup 0..MaxAccrual :
               PollResponse(w, OrderStatusInvalid, acc)
                  => \/ orders' = orders
                     \/ /\ GetOrderByNumber(orders', wk[w].order).status = OrderStatusInvalid
                        /\ GetOrderByNumber(orders', wk[w].order).accrual = Null]_vars

\* C28: a worker answered PROCESSED with accrual 0 or without accrual appends
\* nothing to the ledger, so every balance is as before, and returns to its
\* queue without an owner lookup; its write, unless the store fails it, leaves
\* the order with status PROCESSED and the accrual of the response
C28_ZeroAccrualCreditsNothing ==
    [][\A w \in Workers, acc \in {Null, 0} :
         PollResponse(w, OrderStatusProcessed, acc)
            => /\ ledger' = ledger
               /\ \A u \in Users : GetBalance(ledger', u) = GetBalance(ledger, u)
               /\ wk'[w] = IdleWorker
               /\ \/ orders' = orders
                  \/ /\ OthersUnchanged(wk[w].order)
                     /\ GetOrderByNumber(orders', wk[w].order).status = OrderStatusProcessed
                     /\ GetOrderByNumber(orders', wk[w].order).accrual = acc]_vars

\* the order is stored as PROCESSED with accrual 0, nothing is credited and
\* no worker is on its way to a credit
C28_Witness ==
    /\ ledger = <<>>
    /\ orders = <<[number |-> "79927398713", user |-> "alice",
                   status |-> OrderStatusProcessed, accrual |-> 0]>>
    /\ \A w \in Workers : wk[w].pc = "idle"
    /\ queue = <<>>

\* C29: a worker's step on an error or a RateLimitError of GetOrderAccrual
\* leaves the orders table, the ledger and the work queue as they are, so a
\* pending order stays pending, and ends the processing of the order; on a
\* RateLimitError with RetryAfter d the retry queue gains the item (order, d
\* from now) when it has room and is unchanged when it is full, and on an
\* error it is unchanged; the step is one the worker can always take
C29_FailedPollWritesNothing ==
  /\ [](\A w \in SingleWorker :
          wk[w].pc = "polling"
             => \A d \in 0..MaxRetryAfter : ENABLED PollRateLimit(w, d))
  /\ [][\A w \in SingleWorker :
          /\ PollTransient(w)
               => /\ orders' = orders /\ ledger' = ledger /\ queue' = queue
                  /\ retryQueue' = retryQueue
                  /\ wk'[w] = IdleWorker
          /\ \A d \in 0..MaxRetryAfter :
               PollRateLimit(w, d)
                  => /\ orders' = orders /\ ledger' = ledger /\ queue' = queue
                     /\ GetPendingOrders(orders') = GetPendingOrders(orders)
                     /\ wk'[w] = IdleWorker
                     /\ retryQueue' =
                           IF Len(retryQueue) < QueueSize
                           THEN Append(retryQueue,
                                       [orderNumber |-> wk[w].order, wait |-> d])
                           ELSE retryQueue]_vars

\* the retry queue is full with one order, the worker is polling the other,
\* and both are still pending
C29_Witness ==
    \E w \in SingleWorker :
        /\ wk[w].pc = "polling"
        /\ Len(retryQueue) = QueueSize
        /\ \A i \in 1..Len(retryQueue) : retryQueue[i].orderNumber # wk[w].order
        /\ Len(GetPendingOrders(orders)) = 2
        /\ ledger = <<>>

C31_RetryIndependentOfOthers ==
    \A i \in 1..Len(retryQueue) :
        (retryQueue[i].wait = 0 /\ Len(queue) < QueueSize)
            => ~(rp.pc = "waiting" /\ rp.item.wait > 0)

\* C31 amended: the one retryProcessor takes the retry items one at a time in
\* the order they were queued, each with the retryAfter the worker gave it,
\* and takes the next only after it is done with the one it holds; an idle
\* retryProcessor can always take the head of retryQueue; the step that
\* queues a retry item is a worker's, ends its poll and leaves the work queue
\* and the retryProcessor as they are
C31_RetryInFifoTurn ==
  /\ []((rp.pc = "idle" /\ retryQueue # <<>>) => ENABLED RetryDequeue)
  /\ [][Len(retryQueue') < Len(retryQueue)
          => /\ rp.pc = "idle"
             /\ rp' = [pc |-> "waiting", item |-> Head(retryQueue)]
             /\ retryQueue' = Tail(retryQueue)
             /\ queue' = queue]_vars
  /\ [][Len(retryQueue') > Len(retryQueue)
          => /\ queue' = queue
             /\ rp' = rp
             /\ \E w \in SingleWorker :
                   /\ wk[w].pc = "polling" /\ wk'[w] = IdleWorker
                   /\ \E d \in 0..MaxRetryAfter :
                         retryQueue' = Append(retryQueue,
                             [orderNumber |-> wk[w].order, wait |-> d])]_vars

\* the retryProcessor waits for the retryAfter of one order while the other
\* order, whose retryAfter has come, is queued behind it and the work queue
\* has room
C31_Witness ==
    /\ rp.pc = "waiting" /\ rp.item.wait > 0
    /\ retryQueue # <<>>
    /\ Head(retryQueue).wait = 0
    /\ Head(retryQueue).orderNumber # rp.item.orderNumber
    /\ Len(queue) < QueueSize

\* ------------------------------------------------------------------ scanned orders
\* the place of the order with number n in upload order
UploadRank(n) == CHOOSE j \in 1..Len(orders) : orders[j].number = n

\* C32: the list a scan pass reads holds only numbers of orders that are NEW
\* or PROCESSING at that read, in ascending upload order; the pass offers the
\* head of what is left of that list, so whatever it puts into the work queue
\* is a number of that list, in that order
C32_ScannerOffersPendingOldestFirst ==
  /\ [][(scan.pc = "idle" /\ scan'.pc = "offer")
          => /\ \A i \in 1..Len(scan'.list) :
                   /\ OrderExists(orders, scan'.list[i])
                   /\ GetOrderByNumber(orders, scan'.list[i]).status
                         \in {OrderStatusNew, OrderStatusProcessing}
             /\ \A i, j \in 1..Len(scan'.list) :
                   i < j => UploadRank(scan'.list[i]) < UploadRank(scan'.list[j])]_vars
  /\ [][OfferStep
          => /\ queue' \in {queue, Append(queue, Head(scan.list))}
             /\ scan'.list = Tail(scan.list)]_vars
  /\ [][(scan.pc = "offer" /\ ~OfferStep) => scan' = scan]_vars

\* a pass that read the orders while the older one was INVALID has only the
\* younger one to offer
C32_Witness ==
    /\ scan.pc = "offer"
    /\ scan.list = <<"12345678903">>
    /\ orders[1].number = "79927398713"
    /\ orders[1].status = OrderStatusInvalid
    /\ orders[2].status = OrderStatusNew
    /\ queue = <<>>

\* ------------------------------------------------------------------ room for a pass
\* the work queue has a free slot for every order the pass has still to offer
HasRoomForPass == scan.pc = "offer" /\ Len(scan.list) <= QueueSize - Len(queue)

\* the retryProcessor is done with the item it holds: its send or drop
RequeueStep == rp.pc = "waiting" /\ rp'.pc # "waiting"

\* C33 as claimed, its last part: once the work queue has as many free slots
\* as the pass has orders to offer, it has them until the pass has offered
\* them all, so each offer of the pass enqueues its order
C33_RoomMeansAllEnqueued ==
    [][HasRoomForPass
         => /\ scan'.pc = "offer" => Len(scan'.list) <= QueueSize - Len(queue')
            /\ OfferStep => queue' = Append(queue, Head(scan.list))]_vars

\* C33 amended: a pass never waits for the work queue: its next offer is
\* always possible, enqueues the order when there is a free slot and skips it
\* when the queue is full, and leaves one order fewer to offer, so the pass
\* ends; no step of the scanner changes the orders table or the ledger; the
\* work queue never holds more than QueueSize; and a queue with a free slot
\* for every order left to offer keeps one for each, so all are enqueued,
\* unless the retryProcessor puts an order back during the pass
C33_ScanPassNeverBlocks ==
  /\ [](Len(queue) <= QueueSize)
  /\ [](scan.pc = "offer" => ENABLED ScanOffer)
  /\ [][OfferStep
          => /\ queue' = IF Len(queue) < QueueSize
                         THEN Append(queue, Head(scan.list)) ELSE queue
             /\ Len(scan'.list) = Len(scan.list) - 1
             /\ scan'.pc = IF scan'.list = <<>> THEN "idle" ELSE "offer"]_vars
  /\ [][scan' # scan => orders' = orders /\ ledger' = ledger]_vars
  /\ [][(HasRoomForPass /\ ~RequeueStep)
          => /\ scan'.pc = "offer" => Len(scan'.list) <= QueueSize - Len(queue')
             /\ OfferStep => queue' = Append(queue, Head(scan.list))]_vars

\* the queue has room for the order the pass is about to offer, and the
\* retryProcessor holds another order whose retryAfter has come
C33_Witness ==
    /\ HasRoomForPass
    /\ rp.pc = "waiting" /\ rp.item.wait = 0
    /\ rp.item.orderNumber # Head(scan.list)

\* ------------------------------------------------------------------ scan passes in time
\* C34: the scanner's first step is a scan pass that takes no tick: it is
\* possible as soon as the scanner has started, with no interval elapsed,
\* and reads the pending orders; after it the scanner begins a pass only by
\* receiving a tick, one pass for each tick it receives and never more
\* passes than intervals have elapsed, and a tick in ticker.C can always be
\* received by the idle scanner; the scanner leaves only once the context
\* is cancelled, can always leave then when it is idle, and begins no pass
\* after it has left
C34_ScanAtStartThenPerTick ==
  /\ [](scan.pc = "start"
          => /\ ENABLED ScanAtStart
             /\ PendingNumbers # <<>>
                   => ENABLED (ScanAtStart /\ scan'.pc = "offer"
                                           /\ scan'.list = PendingNumbers))
  /\ [][(scan.pc = "start" /\ scan' # scan)
          => /\ scan'.pc \in {"idle", "offer"}
             /\ scan'.pc = "offer" => scan'.list = PendingNumbers
             /\ ticker' = ticker]_vars
  /\ [][(scan.pc = "idle" /\ (scan' # scan \/ ticker'.received # ticker.received))
          => \/ /\ ticker.C
                /\ ticker' = [ticker EXCEPT !.C = FALSE, !.received = @ + 1]
                /\ scan'.pc \in {"idle", "offer"}
                /\ scan'.pc = "offer" => scan'.list = PendingNumbers
             \/ /\ CtxDone
                /\ scan'.pc = "exited"
                /\ ticker' = ticker]_vars
  /\ []((scan.pc = "idle" /\ ticker.C) => ENABLED ScanOnTick)
  /\ []((scan.pc = "idle" /\ CtxDone) => ENABLED ScanExit)
  /\ [](ticker.received <= ticker.intervals)
  /\ [][scan.pc \in {"offer", "exited"} => ticker'.received = ticker.received]_vars
  /\ [][scan.pc = "exited" => scan' = scan]_vars

\* the first pass has read both orders before any interval has elapsed
C34_Witness ==
    /\ scan.pc = "offer"
    /\ scan.list = <<"79927398713", "12345678903">>
    /\ ticker = NewTicker
    /\ app = "serving"

\* ------------------------------------------------------------------ repeated updates
\* the numbers UpdateOrderStatus is called with: those of orders, and the one
\* of TestOrderRepository_UpdateOrderStatus that no row has
UpdateInputs == OrderNums \cup {"99999999999"}

\* C35: on every store the program reaches, for every number, status and
\* accrual: UpdateOrderStatus for a number that is not stored returns
\* ErrOrderNotFound and the store as it was; for a stored number it returns
\* nil and the store with that row at (status, accrual) and every other row
\* and field as before; and the same call on its result returns the same
\* error and the same store again
C35_UpdateStatusIsIdempotent ==
    \A n \in UpdateInputs, st \in OracleStatuses \cup {OrderStatusNew},
       acc \in {Null} \cup 0..MaxAccrual :
        LET once == UpdateOrderStatus(orders, n, st, acc)
            twice == UpdateOrderStatus(once.orders, n, st, acc)
        IN  /\ twice = once
            /\ ~OrderExists(orders, n)
                  => once = [orders |-> orders, err |-> ErrOrderNotFound]
            /\ OrderExists(orders, n)
                  => /\ once.err = ErrNil
                     /\ Len(once.orders) = Len(orders)
                     /\ \A i \in 1..Len(orders) :
                           once.orders[i] =
                              IF orders[i].number = n
                              THEN [orders[i] EXCEPT !.status = st, !.accrual = acc]
                              ELSE orders[i]

\* the store after an update of one order to PROCESSED with an accrual, with
\* another order beside it and a number that is not stored
C35_Witness ==
    /\ Len(orders) = 2
    /\ \E i \in 1..2 :
          /\ orders[i].number = "79927398713"
          /\ orders[i].status = OrderStatusProcessed
          /\ orders[i].accrual = MaxAccrual
    /\ \E n \in UpdateInputs : ~OrderExists(orders, n)

\* ------------------------------------------------------------------ signs in the ledger
\* C36: every row of the ledger has a positive amount exactly when its type
\* is ACCRUAL and a negative amount exactly when its type is WITHDRAWAL, so
\* no row has amount zero or another type; and every step leaves the rows
\* the ledger has as they are, in place, and at most adds rows after them
C36_SignFollowsTypeAppendOnly ==
  /\ [](\A i \in 1..Len(ledger) :
          /\ ledger[i].amount > 0 <=> ledger[i].type = TransactionTypeAccrual
          /\ ledger[i].amount < 0 <=> ledger[i].type = TransactionTypeWithdrawal)
  /\ [][/\ Len(ledger') >= Len(ledger)
        /\ \A i \in 1..Len(ledger) : ledger'[i] = ledger[i]]_vars

\* the ledger holds the credit of the pipeline for alice's order and, after
\* it, her withdrawal
C36_Witness ==
    \E i, j \in 1..Len(ledger) :
        /\ i < j
        /\ ledger[i].user = "alice" /\ ledger[i].type = TransactionTypeAccrual
        /\ ledger[i].order = "79927398713"
        /\ ledger[j].user = "alice" /\ ledger[j].type = TransactionTypeWithdrawal

\* ------------------------------------------------------------------ other users' books
\* what user v sees of the ledger: the rows, the balance and the withdrawals
Books(l, v) == <<UserRows(l, v), GetBalance(l, v), GetWithdrawals(l, v)>>

\* C39: a step of a withdrawal of user U leaves the orders table and the
\* books of every other user as they are; so does, for the books of every
\* user but the order's owner, the pipeline's write of a verdict; and a
\* withdrawal whose balance covers the amount can insert and commit its row
\* whether or not an order with its number is stored
C39_OnlyOwnBooksChange ==
  /\ [][\A c \in SingleCall :
          wd'[c] # wd[c]
             => /\ orders' = orders
                /\ \A v \in Users \ {wd'[c].user} : Books(ledger', v) = Books(ledger, v)]_vars
  /\ [][\A n \in OrderNums :
          (OrderExists(orders, n) /\ AccrualExists(ledger', n) /\ ~AccrualExists(ledger, n))
             => \A v \in Users \ {GetOrderByNumber(orders, n).user} :
                   Books(ledger', v) = Books(ledger, v)]_vars
  /\ [](\A c \in SingleCall :
          /\ (wd[c].pc = "read" /\ wd[c].balance >= wd[c].amount)
                => ENABLED (WithdrawInsert(c) /\ wd'[c].pc = "inserted")
          /\ wd[c].pc = "inserted"
                => ENABLED (WithdrawCommit(c) /\ wd'[c].err = ErrNil))

\* bob has withdrawn for a number that no order has, while alice's order was
\* credited to her
C39_Witness ==
    \E c \in SingleCall :
        /\ wd[c].pc = "done" /\ wd[c].err = ErrNil
        /\ wd[c].user = "bob"
        /\ ~OrderExists(orders, wd[c].order)
        /\ \E i \in 1..Len(ledger) :
              ledger[i].user = "bob" /\ ledger[i].order = wd[c].order
        /\ \E i \in 1..Len(ledger) :
              ledger[i].user = "alice" /\ ledger[i].order = "79927398713"

\* ------------------------------------------------------------------ the lock is given back
HoldsLock(c) == \E u \in Users : advisoryLock[u] = c

\* C38: only a call inside its transaction, after pg_advisory_xact_lock,
\* holds a lock, and only that of its own user; the step that ends the call,
\* whatever it returns, leaves the lock of its user free; a call that waits
\* for the lock gets it, or has its lock statement failed by the database,
\* and a call that holds the lock ends; and a call can take the lock whenever
\* no call holds the lock of its own user, whoever holds another user's
C38_LockReleasedOnEveryPath ==
  /\ [](\A c \in WithdrawCalls :
          HoldsLock(c) => /\ wd[c].pc \in {"locked", "read", "inserted"}
                          /\ \A u \in Users : advisoryLock[u] = c => u = wd[c].user)
  /\ [][\A c \in WithdrawCalls :
          (wd[c].pc \in {"locked", "read", "inserted"} /\ wd'[c].pc = "done")
             => /\ advisoryLock[wd[c].user] = c
                /\ advisoryLock'[wd[c].user] = NoCall]_vars
  /\ [](\A c \in WithdrawCalls :
          (wd[c].pc = "begun" /\ advisoryLock[wd[c].user] = NoCall)
             => ENABLED (WithdrawLock(c) /\ wd'[c].pc = "locked"))
  /\ \A c \in WithdrawCalls : (wd[c].pc = "begun") ~> (wd[c].pc \in {"locked", "done"})
  /\ \A c \in WithdrawCalls : (wd[c].pc = "locked") ~> (wd[c].pc = "done")

\* a call holds the lock of a user after another call of that user has
\* ended with an error
C38_Witness ==
    \E c1, c2 \in WithdrawCalls :
        /\ wd[c1].pc = "done" /\ wd[c1].err \in {ErrWrapped, ErrInsufficientFunds}
        /\ wd[c2].pc \in {"locked", "read", "inserted"}
        /\ wd[c2].user = wd[c1].user
        /\ advisoryLock[wd[c2].user] = c2

\* ------------------------------------------------------------------ sends after close
\* C37: no goroutine of the pool sends on p.queue or p.retryQueue once
\* Pool.Stop has closed it: neither the scanner's offer nor the
\* retryProcessor's re-queue nor a worker's hand-over of a retry item takes
\* the send case of its select on a closed channel, the one step that makes
\* the process panic
C37_NoSendOnClosedQueue == app # "panic"

====
